---- MODULE Spec2Model ----
(***************************************************************************)
(* Model of the streaming generation route                                 *)
(* (src/app/api/generate-stream/route.ts): the model fallback client       *)
(* callGroqAPI and the event stream produced by POST's ReadableStream      *)
(* start() callback.                                                       *)
(*                                                                         *)
(* Text is modelled as sequences of tokens: the path "/components/A.js" is *)
(* <<"/", "components", "/", "A.js">>, the import specifier "./A.css" is   *)
(* <<".", "/", "A.css">>, a source file is a sequence of lines and a line  *)
(* is a sequence of tokens.  String operations of the source (substring,   *)
(* lastIndexOf, startsWith, includes, regular expressions) are modelled on *)
(* tokens.                                                                 *)
(***************************************************************************)
EXTENDS Integers, Sequences, FiniteSets, TLC

\* ------------------------------------------------------------------------
\* Bounds of the model
\* ------------------------------------------------------------------------

\* longest tool_calls list the model endpoint returns
MaxToolCalls == 2

\* ------------------------------------------------------------------------
\* Program constants
\* ------------------------------------------------------------------------

\* route.ts:22-25  fallback chain, in priority order
MODELS ==
  << [id |-> "llama-3.3-70b-versatile", maxTokens |-> 8000],
     [id |-> "llama-3.1-8b-instant", maxTokens |-> 4000] >>

\* route.ts:196
MAX_RETRIES == 2

\* ------------------------------------------------------------------------
\* Generic helpers
\* ------------------------------------------------------------------------

Range(s) == { s[i] : i \in 1..Len(s) }

\* String.prototype.lastIndexOf('/') on a token sequence; 0 when absent
\* (JavaScript's -1 shifted to 1-based indexing)
LastIndexOfSlash(s) ==
  LET I == { i \in 1..Len(s) : s[i] = "/" }
  IN  IF I = {} THEN 0 ELSE CHOOSE i \in I : \A j \in I : j <= i

\* the value JavaScript's null
Null == [null |-> TRUE]

\* ------------------------------------------------------------------------
\* Paths, import specifiers and file contents used as inputs
\* ------------------------------------------------------------------------

AppJs   == << "/", "App.js" >>
AppCss  == << "/", "App.css" >>
CompAJs == << "/", "components", "/", "A.js" >>
CompACss == << "/", "components", "/", "A.css" >>

\* tokens that end in ".css"
CssNames == { "App.css", "A.css" }

\* tokens matched by the regular expression class \w+
Words == { "App", "A", "Footer", "function", "default", "export", "helper" }

\* words whose first character equals its upper-case form
Capitalized == { "App", "A", "Footer" }

\* import './App.css'
ImportDotAppCss == << "import", ".", "/", "App.css" >>
\* import '/App.css'
ImportAbsAppCss == << "import", "/", "App.css" >>
\* import 'A.css'
ImportBareACss == << "import", "A.css" >>
\* export default App() {      (the "function" keyword is missing)
LineExportDefaultApp == << "export", "default", "App", "(", ")", "{" >>
\* export default function A() {
LineExportDefaultFunctionA == << "export", "default", "function", "A", "(", ")", "{" >>
\* .app { }
LineCss == << ".app", "{", "}" >>

\* /App.js importing nothing
CodePlainApp == << LineExportDefaultApp >>
\* /App.js importing ./App.css
CodeApp == << ImportDotAppCss, LineExportDefaultApp >>
\* /components/A.js importing A.css and /App.css
CodeCompA == << ImportBareACss, ImportAbsAppCss, LineExportDefaultFunctionA >>
\* a stylesheet
CodeCss == << LineCss >>

\* ------------------------------------------------------------------------
\* Pure functions of route.ts
\* ------------------------------------------------------------------------

\* route.ts:36  one match of /import\s+['"](.+\.css)['"]/ : an import line
\* whose specifier ends in a .css name; the specifier is the captured group
IsCssImport(line) ==
  /\ Len(line) >= 2
  /\ line[1] = "import"
  /\ line[Len(line)] \in CssNames

\* route.ts:43-55  absolute path of one imported stylesheet
ResolveCssImport(importPath, filePath) ==
  LET fileDir == SubSeq(filePath, 1, LastIndexOfSlash(filePath) - 1)
  IN  IF Len(importPath) >= 2 /\ importPath[1] = "." /\ importPath[2] = "/"
        THEN fileDir \o Tail(importPath)
        ELSE IF importPath[1] # "/"
               THEN fileDir \o << "/" >> \o importPath
               ELSE importPath

\* route.ts:31-59  the stylesheets a file imports, in order of appearance
RECURSIVE extractCssImports(_, _)
extractCssImports(code, filePath) ==
  IF code = << >> THEN << >>
  ELSE LET rest == extractCssImports(Tail(code), filePath)
       IN  IF IsCssImport(Head(code))
             THEN << ResolveCssImport(Tail(Head(code)), filePath) >> \o rest
             ELSE rest

\* route.ts:64-78  placeholder stylesheet: a comment and an empty rule named
\* after the file
generatePlaceholderCss(cssPath) ==
  LET componentName == cssPath[Len(cssPath)]
  IN  << << "/*", "Auto-generated styles for", componentName, "*/" >>,
         << ".", componentName, "{", "}" >> >>

\* route.ts:90-93  "default Name(" and "export default Name(" at the start
\* of a line get the keyword "function" (a line already holding it has the
\* word "function" where the name is expected, followed by a name and not
\* by a parenthesis, so it does not match)
FixDefault(line) ==
  IF Len(line) >= 3 /\ line[1] = "default" /\ line[2] \in Words /\ line[3] = "("
    THEN << "function" >> \o Tail(line)
    ELSE IF /\ Len(line) >= 4
            /\ line[1] = "export" /\ line[2] = "default"
            /\ line[3] \in Words /\ line[4] = "("
           THEN << "export", "default", "function" >> \o SubSeq(line, 3, Len(line))
           ELSE line

\* route.ts:108-114  a line "Name() {" with a capitalized name gets the
\* keyword "function"
FixMissingFunction(line) ==
  IF /\ Len(line) >= 4
     /\ line[1] \in Words /\ line[2] = "(" /\ line[3] = ")" /\ line[4] = "{"
     /\ line[1] \in Capitalized
    THEN << "function" >> \o line
    ELSE line

\* route.ts:83-117  the fixes applied to every line of a written file
sanitizeCode(code) ==
  [ i \in 1..Len(code) |-> FixMissingFunction(FixDefault(code[i])) ]

\* ------------------------------------------------------------------------
\* Inputs: what the model endpoint may answer
\* ------------------------------------------------------------------------

\* Tool-call argument strings, given by what JSON.parse makes of them:
\* [json |-> v] is the text of the JSON value v, [garbage |-> TRUE] a text
\* no layer of the parser recovers.
ArgsWriteApp    == [json |-> [path |-> AppJs, content |-> CodeApp]]
ArgsWritePlainApp == [json |-> [path |-> AppJs, content |-> CodePlainApp]]
ArgsWriteCompA  == [json |-> [path |-> CompAJs, content |-> CodeCompA,
                              description |-> << "Component A" >>]]
ArgsWriteAppCss == [json |-> [path |-> AppCss, content |-> CodeCss]]
ArgsNoContent   == [json |-> [path |-> AppJs]]
ArgsMessage     == [json |-> [message |-> << "All built" >>]]
ArgsEmpty       == [json |-> [none |-> TRUE]]
ArgsGarbage     == [garbage |-> TRUE]

\* route.ts:122-184  parsed arguments, or null when every layer fails
parseToolArguments(args) ==
  IF "json" \in DOMAIN args THEN args.json ELSE Null

\* the tool invocations the endpoint may return
ToolCalls ==
  { [name |-> "writeFile",   arguments |-> ArgsWriteApp],
    [name |-> "writeFile",   arguments |-> ArgsWritePlainApp],
    [name |-> "writeFile",   arguments |-> ArgsWriteCompA],
    [name |-> "writeFile",   arguments |-> ArgsWriteAppCss],
    [name |-> "writeFile",   arguments |-> ArgsNoContent],
    [name |-> "writeFile",   arguments |-> ArgsGarbage],
    [name |-> "showPreview", arguments |-> ArgsMessage],
    [name |-> "showPreview", arguments |-> ArgsEmpty],
    [name |-> "readFile",    arguments |-> ArgsEmpty] }

ToolCallLists ==
  UNION { [1..n -> ToolCalls] : n \in 0..MaxToolCalls }

\* message.content values: prose, and prose holding tool-call syntax
\* (the token "[fence]" stands for a Markdown code fence of three backticks)
Prose == << "Hello", "there" >>
LeakMarkers == { "<writeFile>", "writeFile(", "\"path\":", "[fence]" }
LeakedTexts == { << "Sure", m >> : m \in LeakMarkers }

\* choices[0].message
Messages ==
  { [none |-> TRUE] }
    \cup { [content |-> c] : c \in { Prose } \cup LeakedTexts }
    \cup { [tool_calls |-> t] : t \in ToolCallLists }
    \cup { [content |-> Prose, tool_calls |-> t] : t \in ToolCallLists }
    \cup { [content |-> c, tool_calls |-> << >>] : c \in LeakedTexts }

\* bodies of HTTP 200 answers: no choices field, an empty choices list, or
\* one message
ResponseData ==
  { [id |-> "x"], [choices |-> << >>] }
    \cup { [choices |-> << m >>] : m \in Messages }

\* bodies of failed HTTP answers (the last one is an empty body)
ErrorTexts ==
  { << "rate_limit" >>, << "tool_use_failed" >>, << "internal", "error" >>,
    << >> }

\* messages of exceptions thrown by fetch or response.json
FetchErrors == { << "fetch failed" >> }

\* ------------------------------------------------------------------------
\* State
\* ------------------------------------------------------------------------

VARIABLES
  pc,              \* position of start(): "start", "fetch", "retryDelay",
                   \* "result", "toolLoop", "cssLoop", "closed"
  events,          \* events enqueued on the stream, in order
  closed,          \* controller.close() was called
  modelIdx,        \* callGroqAPI: position of the for loop in MODELS
  retryCount,      \* callGroqAPI: parameter retryCount
  lastError,       \* callGroqAPI: local lastError ("" is << >>)
  requests,        \* requests sent to the endpoint and how each was answered
  result,          \* what callGroqAPI returned
  tcIdx,           \* position of the loop over message.tool_calls
  hasWrittenFiles,
  hasCalledShowPreview,
  createdFiles,    \* Set of paths, in insertion order
  requiredCssFiles, \* Set of paths, in insertion order
  cssIdx           \* position of the loop over requiredCssFiles

\* page.tsx, Home: React state and the locals of the running handleGenerate
VARIABLES
  files,           \* useState files: the FileSet, path -> content
  isLoading,       \* useState isLoading
  messages,        \* useState messages: the role of each message, in order
  activeFile,      \* useState activeFile: a display path
  handlers,        \* the accepted invocations of handleGenerate: position
                   \* ("fetch", "read", "writeDelay", "done") and the
                   \* locals isFollowUp, newFiles, streamEvents of each
  sent,            \* bodies of the requests sent to /api/generate-stream
  invocations,     \* number of invocations of handleGenerate
  writers          \* who called setFiles since the running generation began

\* WebContainerPreview: module state, component instances, container log
VARIABLES
  webcontainerInstance,
  bootPromise,
  isContainerInitialized,
  serverRunning,
  cachedPreviewUrl,
  instances,       \* every mount of the component: its state and its init()
  previewFiles,    \* the files prop: a version number of the FileSet
  spawned,         \* container.spawn calls, in order
  mounts,          \* container.mount calls, in order: the version mounted
  boots,           \* the calls of WebContainer.boot(): the instance of each
  containers       \* for each instance, the container its init() works on

\* webcontainer-files: the expansion functions applied to an input
VARIABLES
  userFiles,       \* the argument
  tree,            \* what createProjectFiles returned
  expanded         \* what getExpandedProjectFiles returned

\* parseToolArguments applied to an input
VARIABLES
  argString,       \* the argument: a sequence of characters
  parsed           \* what it returned

\* generate/route.ts, POST: the locals of one run on an answer of the model
VARIABLES
  llmData,         \* the body the model endpoint answered with
  genStep,         \* position of POST: "received", "clean", "backticks",
                   \* "newlines", "parse", "repair", "respond", "answered"
  contentText,     \* local content: a sequence of characters
  wasLengthLimited,
  parseResult,     \* local result
  layers,          \* the rewriting and parsing steps taken so far, in order
  answer           \* the response of the route

\* The conversation on its way to the model: page.tsx:152-159 and
\* generate-stream/route.ts:308-338, 202-206
VARIABLES
  conversation,    \* useState messages when handleGenerate is called
  requestBody,     \* the body of the request to /api/generate-stream
  apiMessages      \* the message list sent to the model

\* sanitizeCode run on a text and again on its own result
\* (generate-stream/route.ts:83-117)
VARIABLES
  sourceCode,      \* the text given to the first run: a sequence of tokens
  sanitized        \* what the successive runs returned, in order

\* The editor of the page on a FileSet: page.tsx:81, 278-307, 738-743
VARIABLES
  shownFiles,      \* the FileSet whose expansion the file tree shows
  editorFile,      \* the display path that is open in the editor
  edits            \* the changes the editor reported: the file shown, and
                   \* the FileSet before and after handleCodeChange

pageVars ==
  << files, isLoading, messages, activeFile, handlers, sent, invocations,
     writers >>
previewVars ==
  << webcontainerInstance, bootPromise, isContainerInitialized, serverRunning,
     cachedPreviewUrl, instances, previewFiles, spawned, mounts, boots,
     containers >>
expanderVars == << userFiles, tree, expanded >>
parserVars == << argString, parsed >>
historyVars == << conversation, requestBody, apiMessages >>
sanitizerVars == << sourceCode, sanitized >>
editorVars == << shownFiles, editorFile, edits >>
generateVars ==
  << llmData, genStep, contentText, wasLengthLimited, parseResult, layers,
     answer >>

\* what a run of the route handler never touches
outsideRoute == << pageVars, previewVars, expanderVars, parserVars, generateVars, historyVars, sanitizerVars, editorVars >>

vars ==
  << pc, events, closed, modelIdx, retryCount, lastError, requests, result,
     tcIdx, hasWrittenFiles, hasCalledShowPreview, createdFiles,
     requiredCssFiles, cssIdx, outsideRoute >>

routeVars ==
  << pc, events, closed, modelIdx, retryCount, lastError, requests, result,
     tcIdx, hasWrittenFiles, hasCalledShowPreview, createdFiles,
     requiredCssFiles, cssIdx >>

\* Not used: a value of the variables of a component that is not running
Unused == [unused |-> TRUE]

PageOff ==
  /\ files = Unused /\ isLoading = FALSE /\ messages = << >>
  /\ activeFile = << >> /\ handlers = << >> /\ sent = << >>
  /\ invocations = 0 /\ writers = {}

PreviewOff ==
  /\ webcontainerInstance = FALSE /\ bootPromise = FALSE
  /\ isContainerInitialized = FALSE /\ serverRunning = FALSE
  /\ cachedPreviewUrl = FALSE /\ instances = << >> /\ previewFiles = 0
  /\ spawned = << >> /\ mounts = << >>
  /\ boots = << >> /\ containers = << >>

ExpanderOff == userFiles = Unused /\ tree = Unused /\ expanded = Unused

ParserOff == argString = << >> /\ parsed = Unused

HistoryOff ==
  conversation = << >> /\ requestBody = Unused /\ apiMessages = Unused

SanitizerOff == sourceCode = << >> /\ sanitized = << >>

EditorOff == shownFiles = Unused /\ editorFile = << >> /\ edits = << >>

GenerateOff ==
  /\ llmData = Unused /\ genStep = "off" /\ contentText = << >>
  /\ wasLengthLimited = FALSE /\ parseResult = Unused /\ layers = << >>
  /\ answer = Unused

clientVars == << modelIdx, retryCount, lastError, requests, result >>
loopVars ==
  << tcIdx, hasWrittenFiles, hasCalledShowPreview, createdFiles,
     requiredCssFiles, cssIdx >>

\* an array push in place of a Set: duplicates are kept
SetAdd_Push(s, x) == Append(s, x)

\* Set.prototype.add on a Set kept in insertion order
SetAdd(s, x) == IF x \in Range(s) THEN s ELSE Append(s, x)

RECURSIVE SetAddAll(_, _)
SetAddAll(s, xs) ==
  IF xs = << >> THEN s ELSE SetAddAll(SetAdd(s, Head(xs)), Tail(xs))

\* an event as sendEvent serialises it; absent fields are empty
Event(type, path, content, message) ==
  [type |-> type, path |-> path, content |-> content, message |-> message]

\* route.ts:275-282
sendEvent(evs, e) == Append(evs, e)

ThinkingEvent(message) == Event("thinking", << >>, << >>, message)
ErrorEvent(message) == Event("error", << >>, << >>, message)
TextEvent(content) == Event("text", << >>, content, << >>)
ShowPreviewEvent(message) == Event("showPreview", << >>, << >>, message)
DoneEvent == Event("done", << >>, << >>, << >>)

RouteInit ==
  /\ pc = "start"
  /\ events = << >>
  /\ closed = FALSE
  /\ modelIdx = 0
  /\ retryCount = 0
  /\ lastError = << >>
  /\ requests = << >>
  /\ result = Null
  /\ tcIdx = 0
  /\ hasWrittenFiles = FALSE
  /\ hasCalledShowPreview = FALSE
  /\ createdFiles = << >>
  /\ requiredCssFiles = << >>
  /\ cssIdx = 0

RouteOff ==
  /\ pc = "off" /\ events = << >> /\ closed = FALSE /\ modelIdx = 0
  /\ retryCount = 0 /\ lastError = << >> /\ requests = << >>
  /\ result = Null /\ tcIdx = 0 /\ hasWrittenFiles = FALSE
  /\ hasCalledShowPreview = FALSE /\ createdFiles = << >>
  /\ requiredCssFiles = << >> /\ cssIdx = 0

Init == RouteInit /\ PageOff /\ PreviewOff /\ ExpanderOff /\ ParserOff /\ GenerateOff /\ HistoryOff /\ SanitizerOff /\ EditorOff

\* ------------------------------------------------------------------------
\* callGroqAPI (route.ts:189-270)
\*
\* The recursive call of line 253 is a tail call (its value is returned
\* unchanged), so the retry is modelled as the same loop restarted with
\* retryCount + 1 and a fresh lastError.  The locals are cleared on return.
\* ------------------------------------------------------------------------

\* route.ts:237-240
IsRateLimit(errorText) ==
  "rate_limit" \in Range(errorText) \/ "Rate limit" \in Range(errorText)

\* route.ts:248
IsToolUseFailed(errorText) == "tool_use_failed" \in Range(errorText)

\* the request in flight, as answered
Answered(kind, text) ==
  [model |-> modelIdx, pass |-> retryCount, answer |-> kind, text |-> text]

\* the generic reason whatever was recorded
FailureResult_Generic(err) == [error |-> << "All models failed" >>]

\* route.ts:269
FailureResult(err) ==
  [error |-> IF err = << >> THEN << "All models failed" >> ELSE err]

\* route.ts:198, 243, 256, 265, 269  record the reason and go on with the
\* next candidate, or leave the loop and return the failure
NextCandidate(err) ==
  IF modelIdx < Len(MODELS)
    THEN /\ modelIdx' = modelIdx + 1
         /\ lastError' = err
         /\ pc' = "fetch"
         /\ UNCHANGED << retryCount, result >>
    ELSE /\ result' = FailureResult(err)
         /\ pc' = "result"
         /\ modelIdx' = 0
         /\ lastError' = << >>
         /\ retryCount' = 0

\* a success reported under the first candidate's id
FetchOk_FirstId ==
  /\ pc = "fetch"
  /\ \E data \in ResponseData :
       /\ result' = [data |-> data, model |-> MODELS[1].id]
       /\ requests' = Append(requests, Answered("ok", << >>))
  /\ pc' = "result"
  /\ modelIdx' = 0
  /\ lastError' = << >>
  /\ retryCount' = 0
  /\ UNCHANGED << events, closed, loopVars >>
  /\ UNCHANGED outsideRoute

\* route.ts:228-232  HTTP success: first success wins
FetchOk ==
  /\ pc = "fetch"
  /\ \E data \in ResponseData :
       /\ result' = [data |-> data, model |-> MODELS[modelIdx].id]
       /\ requests' = Append(requests, Answered("ok", << >>))
  /\ pc' = "result"
  /\ modelIdx' = 0
  /\ lastError' = << >>
  /\ retryCount' = 0
  /\ UNCHANGED << events, closed, loopVars >>
  /\ UNCHANGED outsideRoute

\* a rate-limited candidate asked again
FetchRateLimited_SameCandidate ==
  /\ pc = "fetch"
  /\ \E errorText \in ErrorTexts :
       /\ IsRateLimit(errorText)
       /\ requests' = Append(requests, Answered("rate_limit", errorText))
  /\ lastError' = << "Rate limited on", MODELS[modelIdx].id >>
  /\ UNCHANGED << pc, modelIdx, retryCount, result, events, closed, loopVars >>
  /\ UNCHANGED outsideRoute

\* route.ts:236-244
FetchRateLimited ==
  /\ pc = "fetch"
  /\ \E errorText \in ErrorTexts :
       /\ IsRateLimit(errorText)
       /\ requests' = Append(requests, Answered("rate_limit", errorText))
       /\ NextCandidate(<< "Rate limited on", MODELS[modelIdx].id >>)
  /\ UNCHANGED << events, closed, loopVars >>
  /\ UNCHANGED outsideRoute

\* the cap tested off by one: a third whole-chain retry
FetchToolUseFailedRetry_OffByOne ==
  /\ pc = "fetch"
  /\ retryCount <= MAX_RETRIES
  /\ \E errorText \in ErrorTexts :
       /\ ~IsRateLimit(errorText)
       /\ IsToolUseFailed(errorText)
       /\ requests' = Append(requests, Answered("tool_use_failed", errorText))
  /\ pc' = "retryDelay"
  /\ UNCHANGED << events, closed, modelIdx, retryCount, lastError, result,
                  loopVars >>
  /\ UNCHANGED outsideRoute

\* route.ts:248-253  below the cap: wait 500 ms
FetchToolUseFailedRetry ==
  /\ pc = "fetch"
  /\ retryCount < MAX_RETRIES
  /\ \E errorText \in ErrorTexts :
       /\ ~IsRateLimit(errorText)
       /\ IsToolUseFailed(errorText)
       /\ requests' = Append(requests, Answered("tool_use_failed", errorText))
  /\ pc' = "retryDelay"
  /\ UNCHANGED << events, closed, modelIdx, retryCount, lastError, result,
                  loopVars >>
  /\ UNCHANGED outsideRoute

\* a retry of the failing candidate alone
RetryChain_SameCandidate ==
  /\ pc = "retryDelay"
  /\ retryCount' = retryCount + 1
  /\ lastError' = << >>
  /\ pc' = "fetch"
  /\ UNCHANGED << events, closed, modelIdx, requests, result, loopVars >>
  /\ UNCHANGED outsideRoute

\* route.ts:253  the whole chain again, from the first candidate
RetryChain ==
  /\ pc = "retryDelay"
  /\ modelIdx' = 1
  /\ retryCount' = retryCount + 1
  /\ lastError' = << >>
  /\ pc' = "fetch"
  /\ UNCHANGED << events, closed, requests, result, loopVars >>
  /\ UNCHANGED outsideRoute

\* route.ts:248-257  at the cap
FetchToolUseFailedCap ==
  /\ pc = "fetch"
  /\ ~(retryCount < MAX_RETRIES)
  /\ \E errorText \in ErrorTexts :
       /\ ~IsRateLimit(errorText)
       /\ IsToolUseFailed(errorText)
       /\ requests' = Append(requests, Answered("tool_use_failed", errorText))
       /\ NextCandidate(<< "Model failed to use tools correctly. Please try a simpler request." >>)
  /\ UNCHANGED << events, closed, loopVars >>
  /\ UNCHANGED outsideRoute

\* route.ts:259-261
FetchOtherError ==
  /\ pc = "fetch"
  /\ \E errorText \in ErrorTexts :
       /\ ~IsRateLimit(errorText)
       /\ ~IsToolUseFailed(errorText)
       /\ requests' = Append(requests, Answered("error", errorText))
       /\ NextCandidate(errorText)
  /\ UNCHANGED << events, closed, loopVars >>
  /\ UNCHANGED outsideRoute

\* route.ts:262-266  fetch or response.json threw
FetchThrows ==
  /\ pc = "fetch"
  /\ \E err \in FetchErrors :
       /\ requests' = Append(requests, Answered("exception", err))
       /\ NextCandidate(err)
  /\ UNCHANGED << events, closed, loopVars >>
  /\ UNCHANGED outsideRoute

\* ------------------------------------------------------------------------
\* POST: the start() callback of the stream (route.ts:346-504)
\* ------------------------------------------------------------------------

\* route.ts:358-359, 378-379, 399-400, 405-406, 493-494, 501-502
CloseStream(evs) ==
  /\ events' = sendEvent(evs, DoneEvent)
  /\ closed' = TRUE
  /\ pc' = "closed"

\* the catch block without its done event
CatchError_NoDone(evs, message) ==
  /\ events' = sendEvent(evs, ErrorEvent(message))
  /\ closed' = TRUE
  /\ pc' = "closed"

\* route.ts:495-503
CatchError(evs, message) ==
  CloseStream(sendEvent(evs, ErrorEvent(message)))

\* route.ts:349-354
StartStream ==
  /\ pc = "start"
  /\ events' = sendEvent(events, ThinkingEvent(<< "Analyzing your request..." >>))
  /\ modelIdx' = 1
  /\ retryCount' = 0
  /\ lastError' = << >>
  /\ pc' = "fetch"
  /\ UNCHANGED << closed, requests, result, loopVars >>
  /\ UNCHANGED outsideRoute

\* route.ts:356-361
StreamFailure ==
  /\ pc = "result"
  /\ "error" \in DOMAIN result
  /\ CloseStream(sendEvent(events, ErrorEvent(result.error)))
  /\ UNCHANGED << clientVars, loopVars >>
  /\ UNCHANGED outsideRoute

\* route.ts:374  data.choices is undefined: TypeError, caught at 495
MissingChoices ==
  /\ pc = "result"
  /\ "data" \in DOMAIN result
  /\ "choices" \notin DOMAIN result.data
  /\ CatchError(events, << "Cannot read properties of undefined" >>)
  /\ UNCHANGED << clientVars, loopVars >>
  /\ UNCHANGED outsideRoute

HasMessage ==
  /\ pc = "result"
  /\ "data" \in DOMAIN result
  /\ "choices" \in DOMAIN result.data
  /\ Len(result.data.choices) > 0

\* route.ts:374
message == result.data.choices[1]

\* truthiness of message.content and message.tool_calls
ContentTruthy(m) == "content" \in DOMAIN m /\ m.content # << >>
ToolCallsTruthy(m) == "tool_calls" \in DOMAIN m

\* route.ts:386-391
LooksLikeToolSyntax(content) == Range(content) \cap LeakMarkers # {}

\* route.ts:376-381
NoMessage ==
  /\ pc = "result"
  /\ "data" \in DOMAIN result
  /\ "choices" \in DOMAIN result.data
  /\ Len(result.data.choices) = 0
  /\ CloseStream(sendEvent(events, ErrorEvent(<< "No response from model" >>)))
  /\ UNCHANGED << clientVars, loopVars >>
  /\ UNCHANGED outsideRoute

\* route.ts:384-402
LeakedToolSyntax ==
  /\ HasMessage
  /\ ContentTruthy(message) /\ ~ToolCallsTruthy(message)
  /\ LooksLikeToolSyntax(message.content)
  /\ CloseStream(sendEvent(events, ErrorEvent(
       << "I encountered an issue. Please try again with a simpler request." >>)))
  /\ UNCHANGED << clientVars, loopVars >>
  /\ UNCHANGED outsideRoute

\* route.ts:384, 404-407
TextAnswer ==
  /\ HasMessage
  /\ ContentTruthy(message) /\ ~ToolCallsTruthy(message)
  /\ ~LooksLikeToolSyntax(message.content)
  /\ CloseStream(sendEvent(events, TextEvent(message.content)))
  /\ UNCHANGED << clientVars, loopVars >>
  /\ UNCHANGED outsideRoute

\* the tool-call branch without its progress event
BeginToolCalls_Silent ==
  /\ HasMessage
  /\ ~(ContentTruthy(message) /\ ~ToolCallsTruthy(message))
  /\ ToolCallsTruthy(message) /\ Len(message.tool_calls) > 0
  /\ hasWrittenFiles' = FALSE
  /\ hasCalledShowPreview' = FALSE
  /\ createdFiles' = << >>
  /\ requiredCssFiles' = << >>
  /\ tcIdx' = 1
  /\ pc' = "toolLoop"
  /\ UNCHANGED << events, closed, clientVars, cssIdx >>
  /\ UNCHANGED outsideRoute

\* route.ts:411-422
BeginToolCalls ==
  /\ HasMessage
  /\ ~(ContentTruthy(message) /\ ~ToolCallsTruthy(message))
  /\ ToolCallsTruthy(message) /\ Len(message.tool_calls) > 0
  /\ events' = sendEvent(events, ThinkingEvent(<< "Building your application..." >>))
  /\ hasWrittenFiles' = FALSE
  /\ hasCalledShowPreview' = FALSE
  /\ createdFiles' = << >>
  /\ requiredCssFiles' = << >>
  /\ tcIdx' = 1
  /\ pc' = "toolLoop"
  /\ UNCHANGED << closed, clientVars, cssIdx >>
  /\ UNCHANGED outsideRoute

\* route.ts:384, 411, 493-494  neither a prose answer nor tool calls
NothingToDo ==
  /\ HasMessage
  /\ ~(ContentTruthy(message) /\ ~ToolCallsTruthy(message))
  /\ ~(ToolCallsTruthy(message) /\ Len(message.tool_calls) > 0)
  /\ CloseStream(events)
  /\ UNCHANGED << clientVars, loopVars >>
  /\ UNCHANGED outsideRoute

\* route.ts:422-424
toolCall == message.tool_calls[tcIdx]
args == parseToolArguments(toolCall.arguments)

\* route.ts:422, 462-465  next iteration, or on to the stylesheet loop
NextToolCall ==
  IF tcIdx < Len(message.tool_calls)
    THEN tcIdx' = tcIdx + 1 /\ pc' = "toolLoop" /\ cssIdx' = cssIdx
    ELSE tcIdx' = tcIdx + 1 /\ pc' = "cssLoop" /\ cssIdx' = 1

\* a parse miss that aborts the batch
SkipUnparsable_Abort ==
  /\ pc = "toolLoop"
  /\ args = Null
  /\ CatchError(events, << "Failed to parse tool arguments" >>)
  /\ UNCHANGED << clientVars, loopVars >>
  /\ UNCHANGED outsideRoute

\* route.ts:426-429
SkipUnparsable ==
  /\ pc = "toolLoop"
  /\ args = Null
  /\ NextToolCall
  /\ UNCHANGED << events, closed, clientVars, hasWrittenFiles,
                  hasCalledShowPreview, createdFiles, requiredCssFiles >>
  /\ UNCHANGED outsideRoute

\* route.ts:431-454
WriteFile ==
  /\ pc = "toolLoop"
  /\ args # Null
  /\ toolCall.name = "writeFile"
  /\ "path" \in DOMAIN args /\ "content" \in DOMAIN args
  /\ hasWrittenFiles' = TRUE
  /\ createdFiles' = SetAdd(createdFiles, args.path)
  /\ requiredCssFiles' =
       SetAddAll(requiredCssFiles, extractCssImports(args.content, args.path))
  /\ events' = sendEvent(events,
       Event("writeFile", args.path, sanitizeCode(args.content),
             IF "description" \in DOMAIN args /\ args.description # << >>
               THEN args.description
               ELSE << "Creating" >> \o args.path))
  /\ NextToolCall
  /\ UNCHANGED << closed, clientVars, hasCalledShowPreview >>
  /\ UNCHANGED outsideRoute

\* route.ts:431-444, 495-503  args.content is undefined: sanitizeCode
\* throws a TypeError, caught at 495
WriteFileThrows ==
  /\ pc = "toolLoop"
  /\ args # Null
  /\ toolCall.name = "writeFile"
  /\ "path" \in DOMAIN args /\ "content" \notin DOMAIN args
  /\ hasWrittenFiles' = TRUE
  /\ createdFiles' = SetAdd(createdFiles, args.path)
  /\ CatchError(events, << "Cannot read properties of undefined" >>)
  /\ UNCHANGED << clientVars, tcIdx, hasCalledShowPreview, requiredCssFiles,
                  cssIdx >>
  /\ UNCHANGED outsideRoute

\* route.ts:455-461
ShowPreviewCall ==
  /\ pc = "toolLoop"
  /\ args # Null
  /\ toolCall.name = "showPreview"
  /\ hasCalledShowPreview' = TRUE
  /\ events' = sendEvent(events, ShowPreviewEvent(
       IF "message" \in DOMAIN args /\ args.message # << >>
         THEN args.message
         ELSE << "Your app is ready!" >>))
  /\ NextToolCall
  /\ UNCHANGED << closed, clientVars, hasWrittenFiles, createdFiles,
                  requiredCssFiles >>
  /\ UNCHANGED outsideRoute

\* route.ts:431, 455, 461  a tool of another name: nothing is emitted
UnknownTool ==
  /\ pc = "toolLoop"
  /\ args # Null
  /\ toolCall.name \notin { "writeFile", "showPreview" }
  /\ NextToolCall
  /\ UNCHANGED << events, closed, clientVars, hasWrittenFiles,
                  hasCalledShowPreview, createdFiles, requiredCssFiles >>
  /\ UNCHANGED outsideRoute

\* route.ts:465-476  a stylesheet that was imported and never written
AutoCreateCss ==
  /\ pc = "cssLoop"
  /\ cssIdx <= Len(requiredCssFiles)
  /\ requiredCssFiles[cssIdx] \notin Range(createdFiles)
  /\ events' = sendEvent(events,
       Event("writeFile", requiredCssFiles[cssIdx],
             generatePlaceholderCss(requiredCssFiles[cssIdx]),
             << "Creating" >> \o requiredCssFiles[cssIdx] \o << "(auto-generated)" >>))
  /\ cssIdx' = cssIdx + 1
  /\ UNCHANGED << pc, closed, clientVars, tcIdx, hasWrittenFiles,
                  hasCalledShowPreview, createdFiles, requiredCssFiles >>
  /\ UNCHANGED outsideRoute

\* route.ts:465-466  a stylesheet that was written by a tool call
SkipCreatedCss ==
  /\ pc = "cssLoop"
  /\ cssIdx <= Len(requiredCssFiles)
  /\ requiredCssFiles[cssIdx] \in Range(createdFiles)
  /\ cssIdx' = cssIdx + 1
  /\ UNCHANGED << pc, events, closed, clientVars, tcIdx, hasWrittenFiles,
                  hasCalledShowPreview, createdFiles, requiredCssFiles >>
  /\ UNCHANGED outsideRoute

\* the preview synthesized whether or not a file was written
WithAutoPreview_Always(evs) ==
  IF ~hasCalledShowPreview
    THEN sendEvent(evs, ShowPreviewEvent(<< "Your app is ready!" >>))
    ELSE evs

\* route.ts:480-485
WithAutoPreview(evs) ==
  IF hasWrittenFiles /\ ~hasCalledShowPreview
    THEN sendEvent(evs, ShowPreviewEvent(<< "Your app is ready!" >>))
    ELSE evs

\* route.ts:488-490
WithText(evs) ==
  IF ContentTruthy(message)
    THEN sendEvent(evs, TextEvent(message.content))
    ELSE evs

\* route.ts:479-494
Finalize ==
  /\ pc = "cssLoop"
  /\ cssIdx > Len(requiredCssFiles)
  /\ CloseStream(WithText(WithAutoPreview(events)))
  /\ UNCHANGED << clientVars, loopVars >>
  /\ UNCHANGED outsideRoute

Next ==
  \/ StartStream
  \/ FetchOk
  \/ FetchRateLimited
  \/ FetchToolUseFailedRetry
  \/ RetryChain
  \/ FetchToolUseFailedCap
  \/ FetchOtherError
  \/ FetchThrows
  \/ StreamFailure
  \/ MissingChoices
  \/ NoMessage
  \/ LeakedToolSyntax
  \/ TextAnswer
  \/ BeginToolCalls
  \/ NothingToDo
  \/ SkipUnparsable
  \/ WriteFile
  \/ WriteFileThrows
  \/ ShowPreviewCall
  \/ UnknownTool
  \/ AutoCreateCss
  \/ SkipCreatedCss
  \/ Finalize

Spec == Init /\ [][Next]_vars

\* Every step of start() is eventually taken: each request to the endpoint
\* is eventually answered (or fails) and every timer (route.ts:252, 454,
\* 475) eventually fires.
FairSpec == Init /\ [][Next]_vars /\ WF_vars(Next)

\* ------------------------------------------------------------------------
\* Vocabulary of the properties
\* ------------------------------------------------------------------------

EventTypes == [ i \in 1..Len(events) |-> events[i].type ]

Positions(type) == { i \in 1..Len(events) : events[i].type = type }

\* the message of an auto-generated stylesheet event (route.ts:473)
IsAutoGenerated(e) ==
  /\ e.type = "writeFile"
  /\ e.message = << "Creating" >> \o e.path \o << "(auto-generated)" >>

AutoPositions(path) ==
  { i \in Positions("writeFile") :
      IsAutoGenerated(events[i]) /\ events[i].path = path }

\* the response took the tool-call branch
HasToolCallBatch ==
  /\ "data" \in DOMAIN result
  /\ "choices" \in DOMAIN result.data
  /\ Len(result.data.choices) > 0
  /\ "tool_calls" \in DOMAIN message
  /\ Len(message.tool_calls) > 0

Calls == message.tool_calls

Parsed(i) == parseToolArguments(Calls[i].arguments)

\* call i is a writeFile call whose arguments parse
IsParsableWrite(i) == Calls[i].name = "writeFile" /\ Parsed(i) # Null

\* call i is a writeFile call whose arguments carry a path and a content
IsCompleteWrite(i) ==
  /\ IsParsableWrite(i)
  /\ "path" \in DOMAIN Parsed(i)
  /\ "content" \in DOMAIN Parsed(i)

IsParsablePreview(i) == Calls[i].name = "showPreview" /\ Parsed(i) # Null

NoErrorEvent == Positions("error") = {}

\* ------------------------------------------------------------------------
\* C1  On every path of the stream (chain exhausted, no message, prose,
\* leaked tool syntax, tool calls, exception while processing) the event
\* sequence holds exactly one done event, done is the last event, and the
\* stream is closed exactly when done has been sent.
\* ------------------------------------------------------------------------
C1_OneDoneClosesStream ==
  /\ closed <=> pc = "closed"
  /\ closed <=> (Len(events) > 0 /\ events[Len(events)].type = "done")
  /\ \A i \in 1..Len(events) : events[i].type = "done" => i = Len(events)

\* a stream closed by the catch block after a file had been written
C1_Witness ==
  /\ closed
  /\ Positions("error") # {}
  /\ Positions("writeFile") # {}
  /\ Cardinality(Positions("done")) = 1

\* ------------------------------------------------------------------------
\* C2  No writeFile event follows a showPreview event and at most one
\* showPreview event is emitted per generation.
\* ------------------------------------------------------------------------
C2_PreviewLastAndOnce ==
  /\ \A i \in Positions("showPreview") :
       \A j \in Positions("writeFile") : j < i
  /\ Cardinality(Positions("showPreview")) <= 1

\* ------------------------------------------------------------------------
\* C3  N writeFile calls followed by one showPreview call.
\* ------------------------------------------------------------------------

\* the batch is N parsable writeFile calls (their arguments parse to a path
\* and a content) followed by one parsable showPreview call
WritesThenPreview ==
  /\ HasToolCallBatch
  /\ IsParsablePreview(Len(Calls))
  /\ \A i \in 1..(Len(Calls) - 1) : IsCompleteWrite(i)

NoPreviewCall ==
  /\ HasToolCallBatch
  /\ \A i \in 1..Len(Calls) : Calls[i].name # "showPreview"

\* positions of the writeFile events that come from tool calls
CallWritePositions ==
  { i \in Positions("writeFile") : ~IsAutoGenerated(events[i]) }

\* exactly one showPreview event, after every writeFile event, before done
OnePreviewAfterWrites ==
  /\ Cardinality(Positions("showPreview")) = 1
  /\ \A k \in Positions("showPreview") :
       /\ events[k] = ShowPreviewEvent(<< "Your app is ready!" >>)
       /\ \A j \in Positions("writeFile") : j < k
       /\ \A d \in Positions("done") : k < d

WrittenCalls ==
  { k \in 1..Len(Calls) : k < tcIdx /\ IsCompleteWrite(k) }

\* the stylesheets imported by the files that were written
ImportedCss ==
  UNION { Range(extractCssImports(Parsed(i).content, Parsed(i).path)) :
            i \in WrittenCalls }

\* some writeFile call of the batch has this path
WrittenByCall(path) ==
  \E i \in 1..Len(Calls) :
    IsParsableWrite(i) /\ "path" \in DOMAIN Parsed(i) /\ Parsed(i).path = path

CssCompletion ==
  \A path \in ImportedCss :
    IF WrittenByCall(path)
      THEN AutoPositions(path) = {}
      ELSE Cardinality(AutoPositions(path)) = 1

EventsOfCall(call) ==
  LET a == parseToolArguments(call.arguments)
  IN  IF a = Null THEN << >>
      ELSE IF call.name = "writeFile"
        THEN << Event("writeFile", a.path, sanitizeCode(a.content),
                      IF "description" \in DOMAIN a
                        THEN a.description ELSE << "Creating" >> \o a.path) >>
      ELSE IF call.name = "showPreview"
        THEN << ShowPreviewEvent(IF "message" \in DOMAIN a
                                   THEN a.message
                                   ELSE << "Your app is ready!" >>) >>
      ELSE << >>

RECURSIVE EventsOfCalls(_)
EventsOfCalls(calls) ==
  IF calls = << >> THEN << >>
  ELSE EventsOfCall(Head(calls)) \o EventsOfCalls(Tail(calls))

\* no call of the batch makes sanitizeCode throw
NoCallThrows ==
  \A i \in 1..Len(Calls) :
    (Calls[i].name = "writeFile" /\ Parsed(i) # Null) => IsCompleteWrite(i)

\* C6: an unparsable call leaves no event and no error event: after k calls
\* of the loop the stream holds exactly the events of the parsable calls
\* among the first k, in call order; unless a call throws, every call of the
\* batch is processed and the stream ends with done and without error.
C6_UnparsableCallSkipped ==
  HasToolCallBatch =>
    LET head == << ThinkingEvent(<< "Analyzing your request..." >>),
                   ThinkingEvent(<< "Building your application..." >>) >>
        all == head \o EventsOfCalls(Calls)
    IN  /\ pc = "toolLoop" =>
             events = head \o EventsOfCalls(SubSeq(Calls, 1, tcIdx - 1))
        /\ (pc \in { "cssLoop", "closed" } /\ NoCallThrows) =>
             /\ tcIdx = Len(Calls) + 1
             /\ Len(events) >= Len(all)
             /\ SubSeq(events, 1, Len(all)) = all
             /\ NoErrorEvent
        /\ pc = "closed" => events[Len(events)].type = "done"

\* an unparsable call followed by a writeFile call that was still emitted
C6_Witness ==
  /\ pc = "closed"
  /\ HasToolCallBatch
  /\ Len(Calls) = 2
  /\ Parsed(1) = Null
  /\ IsCompleteWrite(2)
  /\ EventTypes[3] = "writeFile"
  /\ events[3].path = Parsed(2).path
  /\ NoErrorEvent
  /\ events[Len(events)].type = "done"

\* ------------------------------------------------------------------------
\* C7  Candidates are tried in list order; the first success wins.
\* ------------------------------------------------------------------------

\* a request to candidate modelIdx is in flight or about to be sent
RequestPending == pc \in { "fetch", "retryDelay" }

\* C7: requests go down the list in order (a new pass starts at the first
\* candidate); a success is the last request ever sent, and the call
\* returns that candidate's data under that candidate's id.
C7_FirstSuccessWins ==
  /\ \A j \in 1..Len(requests) :
       /\ j = 1 => requests[j].model = 1 /\ requests[j].pass = 0
       /\ j > 1 =>
            \/ /\ requests[j].pass = requests[j - 1].pass
               /\ requests[j].model = requests[j - 1].model + 1
            \/ /\ requests[j].pass = requests[j - 1].pass + 1
               /\ requests[j].model = 1
       /\ requests[j].model \in 1..Len(MODELS)
       /\ requests[j].answer = "ok" =>
            /\ j = Len(requests)
            /\ ~RequestPending
            /\ "data" \in DOMAIN result
            /\ result.model = MODELS[requests[j].model].id
  /\ "data" \in DOMAIN result =>
       /\ Len(requests) > 0
       /\ requests[Len(requests)].answer = "ok"
  /\ ( /\ Len(requests) = 2
       /\ requests[1].answer = "rate_limit"
       /\ requests[2].answer = "ok" ) =>
       result.model = "llama-3.1-8b-instant"

\* the first candidate rate-limited, the second succeeded
C7_Witness ==
  /\ Len(requests) = 2
  /\ requests[1] = [model |-> 1, pass |-> 0, answer |-> "rate_limit",
                    text |-> << "rate_limit" >>]
  /\ requests[2].answer = "ok"
  /\ requests[2].model = 2
  /\ "data" \in DOMAIN result
  /\ result.model = "llama-3.1-8b-instant"

\* ------------------------------------------------------------------------
\* C8  A rate-limited candidate.
\* ------------------------------------------------------------------------

\* the candidate the next request goes to, if one is pending
PendingFor(model, pass) ==
  /\ pc = "fetch"
  /\ modelIdx = model
  /\ retryCount = pass

\* C8 as stated: within one call, recursive retries included, a candidate
\* that answered rate-limited is never sent another request.
C8_Original ==
  \A j \in 1..Len(requests) :
    requests[j].answer = "rate_limit" =>
      /\ \A k \in (j + 1)..Len(requests) : requests[k].model # requests[j].model
      /\ ~(pc = "fetch" /\ modelIdx = requests[j].model)

\* C8 as amended: within one pass over the list a rate-limited candidate is
\* followed by the next candidate and is not asked again in that pass (a
\* whole-chain retry starts a new pass at the first candidate and may ask it
\* again).
C8_RateLimitAdvances ==
  \A j \in 1..Len(requests) :
    requests[j].answer = "rate_limit" =>
      /\ \A k \in (j + 1)..Len(requests) :
           requests[k].pass = requests[j].pass =>
             requests[k].model > requests[j].model
      /\ j < Len(requests) =>
           /\ requests[j + 1].model = requests[j].model + 1
           /\ requests[j + 1].pass = requests[j].pass
      /\ j = Len(requests) =>
           IF requests[j].model < Len(MODELS)
             THEN PendingFor(requests[j].model + 1, requests[j].pass)
             ELSE ~RequestPending /\ "error" \in DOMAIN result

\* the first candidate answered rate-limited in the first pass and was asked
\* again in the second
C8_Witness ==
  /\ Len(requests) >= 3
  /\ requests[1].answer = "rate_limit"
  /\ requests[2].answer = "tool_use_failed"
  /\ requests[3].model = 1
  /\ requests[3].pass = 1

\* ------------------------------------------------------------------------
\* C9  tool_use_failed: whole-chain retry below the cap, next candidate at
\* the cap.
\* ------------------------------------------------------------------------

ToolsFailedReason ==
  << "Model failed to use tools correctly. Please try a simpler request." >>

\* C9: after a tool_use_failed answer in pass p < MAX_RETRIES the client
\* waits and the next request goes to the first candidate in pass p + 1, no
\* further candidate of pass p being asked; in pass MAX_RETRIES the reason
\* is recorded and the next candidate of the same pass is asked (or the
\* failure returned after the last one).
C9_ToolUseFailedRetry ==
  \A j \in 1..Len(requests) :
    requests[j].answer = "tool_use_failed" =>
      IF requests[j].pass < MAX_RETRIES
        THEN /\ \A k \in (j + 1)..Len(requests) :
                  requests[k].pass > requests[j].pass
             /\ j < Len(requests) =>
                  /\ requests[j + 1].model = 1
                  /\ requests[j + 1].pass = requests[j].pass + 1
             /\ j = Len(requests) =>
                  \/ /\ pc = "retryDelay"
                     /\ retryCount = requests[j].pass
                  \/ PendingFor(1, requests[j].pass + 1) /\ lastError = << >>
        ELSE /\ requests[j].pass = MAX_RETRIES
             /\ j < Len(requests) =>
                  /\ requests[j + 1].model = requests[j].model + 1
                  /\ requests[j + 1].pass = requests[j].pass
             /\ j = Len(requests) =>
                  IF requests[j].model < Len(MODELS)
                    THEN /\ PendingFor(requests[j].model + 1, MAX_RETRIES)
                         /\ lastError = ToolsFailedReason
                    ELSE /\ ~RequestPending
                         /\ "error" \in DOMAIN result
                         /\ result.error = ToolsFailedReason

\* the second candidate failed in the first pass and the chain restarted;
\* the first candidate failed in the last pass and the second was asked
C9_Witness ==
  /\ Len(requests) = 5
  /\ requests[2] = [model |-> 2, pass |-> 0, answer |-> "tool_use_failed",
                    text |-> << "tool_use_failed" >>]
  /\ requests[3].model = 1 /\ requests[3].pass = 1
  /\ requests[4].model = 1 /\ requests[4].pass = 2
  /\ requests[4].answer = "tool_use_failed"
  /\ requests[5].model = 2 /\ requests[5].pass = 2

\* ------------------------------------------------------------------------
\* C10  Every candidate exhausted.
\* ------------------------------------------------------------------------

\* the reason the client records for a failed request
RecordedReason(request) ==
  IF request.answer = "rate_limit"
    THEN << "Rate limited on", MODELS[request.model].id >>
  ELSE IF request.answer = "tool_use_failed" THEN ToolsFailedReason
  ELSE request.text

\* C10: the failure returned is the reason recorded for the last request
\* (the generic reason when that is empty), and the stream is then exactly
\* thinking, one error event with that reason, done.
C10_ExhaustedFailure ==
  "error" \in DOMAIN result =>
    LET final == requests[Len(requests)]
        reason == IF RecordedReason(final) = << >>
                    THEN << "All models failed" >>
                    ELSE RecordedReason(final)
    IN  /\ final.model = Len(MODELS)
        /\ final.answer # "ok"
        /\ result.error = reason
        /\ pc = "result" =>
             events = << ThinkingEvent(<< "Analyzing your request..." >>) >>
        /\ pc # "result" =>
             /\ pc = "closed"
             /\ events = << ThinkingEvent(<< "Analyzing your request..." >>),
                            ErrorEvent(reason), DoneEvent >>

\* both candidates rate-limited: the stream carries the second one's reason
C10_Witness ==
  /\ pc = "closed"
  /\ "error" \in DOMAIN result
  /\ result.error = << "Rate limited on", "llama-3.1-8b-instant" >>
  /\ events[2] = ErrorEvent(<< "Rate limited on", "llama-3.1-8b-instant" >>)
  /\ EventTypes = << "thinking", "error", "done" >>

\* every candidate answered with an empty error body: the generic reason
C10_WitnessGeneric ==
  /\ pc = "closed"
  /\ "error" \in DOMAIN result
  /\ requests[Len(requests)].text = << >>
  /\ events[2] = ErrorEvent(<< "All models failed" >>)

\* ------------------------------------------------------------------------
\* C11  The fallback client terminates: at most (MAX_RETRIES + 1) x |MODELS|
\* = 6 requests are sent, and when every request is eventually answered the
\* client eventually returns a success or a failure.
\* ------------------------------------------------------------------------
C11_ClientTerminates ==
  /\ [](Len(requests) <= 6 /\ retryCount <= MAX_RETRIES)
  /\ <>(~RequestPending /\ result # Null
          /\ ("data" \in DOMAIN result \/ "error" \in DOMAIN result))

\* the longest chain: two requests in each of the three passes, then failure
C11_Witness ==
  /\ Len(requests) = 6
  /\ requests[6].pass = MAX_RETRIES
  /\ requests[6].model = Len(MODELS)
  /\ "error" \in DOMAIN result

\* ------------------------------------------------------------------------
\* C12, C13  A response that carries text and no tool calls.
\* ------------------------------------------------------------------------

MessagePresent ==
  /\ "data" \in DOMAIN result
  /\ "choices" \in DOMAIN result.data
  /\ Len(result.data.choices) > 0

\* tool_calls is absent or an empty list
NoToolCalls(m) == "tool_calls" \notin DOMAIN m \/ m.tool_calls = << >>

GenericRetryMessage ==
  << "I encountered an issue. Please try again with a simpler request." >>

\* C12: no tool calls and text holding leaked tool-call syntax: the stream
\* carries an error event with the generic retry message followed by done,
\* and the text is in no text event.
C12_LeakedTextIsError ==
  ( /\ pc = "closed"
    /\ MessagePresent
    /\ NoToolCalls(message)
    /\ ContentTruthy(message)
    /\ LooksLikeToolSyntax(message.content) ) =>
    /\ events = << ThinkingEvent(<< "Analyzing your request..." >>),
                   ErrorEvent(GenericRetryMessage), DoneEvent >>
    /\ \A i \in Positions("text") : events[i].content # message.content

\* C13: no tool calls and prose without leaked syntax: exactly one text
\* event with that prose, followed by done, and no error event.
C13_ProseIsText ==
  ( /\ pc = "closed"
    /\ MessagePresent
    /\ NoToolCalls(message)
    /\ ContentTruthy(message)
    /\ ~LooksLikeToolSyntax(message.content) ) =>
    /\ events = << ThinkingEvent(<< "Analyzing your request..." >>),
                   TextEvent(message.content), DoneEvent >>
    /\ NoErrorEvent

\* ------------------------------------------------------------------------
\* page.tsx: the client.  Home's state, handleGenerate consuming a stream,
\* and the editor.
\* ------------------------------------------------------------------------

MaxInvocations == 3
MaxStreamEvents == 2

\* page.tsx:10-30
DefaultAppCode == << << "export", "default", "function", "App", "(", ")", "{", "Welcome", "}" >> >>
DEFAULT_FILES == [p \in { AppJs } |-> DefaultAppCode]

\* the object {}
EmptyFiles == [p \in {} |-> << >>]

\* obj[key] = value, on a copy
Put(obj, key, value) ==
  [q \in DOMAIN obj \cup { key } |-> IF q = key THEN value ELSE obj[q]]

\* display paths
SrcAppJsx == << "/", "src", "/", "App.jsx" >>
SrcAppCss == << "/", "src", "/", "App.css" >>
SrcIndexCss == << "/", "src", "/", "index.css" >>
SrcCompAJsx == << "/", "src", "/", "components", "/", "A.jsx" >>

startsWith(s, prefix) ==
  Len(s) >= Len(prefix) /\ SubSeq(s, 1, Len(prefix)) = prefix

\* name.replace(".js", ".jsx") on a file-name token: the first ".js" of
\* the name becomes ".jsx"
ReplaceJsByJsx(name) ==
  CASE name = "A.js" -> "A.jsx"
    [] name = "App.js" -> "App.jsx"
    [] name = "Footer.js" -> "Footer.jsx"
    [] name = "A.jsx" -> "A.jsxx"
    [] name = "App.jsx" -> "App.jsxx"
    [] OTHER -> name

\* name.replace(".jsx", ".js") on a file-name token
ReplaceJsxByJs(name) ==
  CASE name = "A.jsx" -> "A.js"
    [] name = "App.jsx" -> "App.js"
    [] OTHER -> name

\* page.tsx:198-202
DisplayPath(path) ==
  IF path = AppJs THEN SrcAppJsx
  ELSE IF startsWith(path, << "/", "components", "/" >>)
    THEN << "/", "src" >> \o [i \in 1..Len(path) |-> ReplaceJsByJsx(path[i])]
    ELSE path

\* page.tsx:296-305: the FileSet key the editor writes; Null when it returns
SourceFilePath(active) ==
  IF active = SrcAppJsx THEN AppJs
  ELSE IF startsWith(active, << "/", "src", "/", "components", "/" >>)
    THEN LET rest == SubSeq(active, 6, Len(active))
         IN  << "/", "components", "/" >>
               \o [i \in 1..Len(rest) |-> ReplaceJsxByJs(rest[i])]
  ELSE IF active = SrcAppCss THEN AppCss
  ELSE Null

\* what the stream can carry and the editor can hold
CodeEdited == << << "edited" >> >>
StreamPaths == { AppJs, CompAJs }
StreamContents == { << >>, CodePlainApp, CodeApp }
WriteFileEvents ==
  { Event("writeFile", p, c, << "Creating" >>) :
      p \in StreamPaths, c \in StreamContents }
OtherEvents == { ShowPreviewEvent(<< "Your app is ready!" >>) }
Prompts == { << >>, << "build", "a", "counter" >> }
SelectablePaths == { SrcAppJsx, SrcCompAJsx, SrcIndexCss }

outsidePage == << routeVars, previewVars, expanderVars, parserVars, generateVars, historyVars, sanitizerVars, editorVars >>

PageInit ==
  /\ files = DEFAULT_FILES
  /\ isLoading = FALSE
  /\ messages = << >>
  /\ activeFile = SrcAppJsx
  /\ handlers = << >>
  /\ sent = << >>
  /\ invocations = 0
  /\ writers = {}

IsRunning(h) == h.pc # "done"

\* messages.slice(0, 4): the first four instead of the last four
LastFour_FirstFour(ms) == SubSeq(ms, 1, IF Len(ms) > 4 THEN 4 ELSE Len(ms))

\* page.tsx:155: messages.slice(-4)
LastFour(ms) == SubSeq(ms, IF Len(ms) > 4 THEN Len(ms) - 3 ELSE 1, Len(ms))

\* page.tsx:116  prompt.trim() is empty or a generation is loading
HandleGenerateRejected ==
  /\ invocations < MaxInvocations
  /\ \E currentPrompt \in Prompts :
       currentPrompt = << >> \/ isLoading
  /\ invocations' = invocations + 1
  /\ UNCHANGED << files, isLoading, messages, activeFile, handlers, sent,
                  writers >>
  /\ UNCHANGED outsidePage

\* page.tsx:114-160  up to the await of fetch
HandleGenerate ==
  /\ invocations < MaxInvocations
  /\ \E currentPrompt \in Prompts :
       /\ ~(currentPrompt = << >> \/ isLoading)
       /\ LET followUp == Len(messages) > 0 IN
            /\ handlers' =
                 Append(SelectSeq(handlers, IsRunning),
                        [pc |-> "fetch",
                         isFollowUp |-> followUp,
                         newFiles |-> IF followUp THEN files ELSE EmptyFiles,
                         streamEvents |-> << >>])
            /\ sent' =
                 Append(sent,
                        [prompt |-> currentPrompt,
                         currentFiles |-> IF followUp THEN files ELSE Null,
                         conversationHistory |-> LastFour(messages)])
  /\ messages' = messages \o << "user", "assistant" >>
  /\ isLoading' = TRUE
  /\ invocations' = invocations + 1
  /\ writers' = {}
  /\ UNCHANGED << files, activeFile >>
  /\ UNCHANGED outsidePage

Locals(i, pc0, nf, evs) ==
  [handlers EXCEPT ![i] = [pc |-> pc0, isFollowUp |-> handlers[i].isFollowUp,
                           newFiles |-> nf, streamEvents |-> evs]]

\* page.tsx:149-167, 252-261  fetch rejects, or the response is not ok
FetchFails ==
  \E i \in 1..Len(handlers) :
    /\ handlers[i].pc = "fetch"
    /\ handlers' =
         Locals(i, "done", handlers[i].newFiles, handlers[i].streamEvents)
    /\ isLoading' = FALSE
    /\ UNCHANGED << files, messages, activeFile, sent, invocations, writers >>
    /\ UNCHANGED outsidePage

\* page.tsx:149-173
FetchResponds ==
  \E i \in 1..Len(handlers) :
    /\ handlers[i].pc = "fetch"
    /\ handlers' =
         Locals(i, "read", handlers[i].newFiles, handlers[i].streamEvents)
    /\ UNCHANGED << files, isLoading, messages, activeFile, sent, invocations,
                    writers >>
    /\ UNCHANGED outsidePage

\* page.tsx:191  data.path && data.content
IsAcceptedWrite(e) ==
  e.type = "writeFile" /\ e.path # << >> /\ e.content # << >>

\* page.tsx:186-209  a writeFile event with a path and a content
ReadWriteFile ==
  \E i \in 1..Len(handlers), data \in WriteFileEvents :
    /\ handlers[i].pc = "read"
    /\ Len(handlers[i].streamEvents) < MaxStreamEvents
    /\ IsAcceptedWrite(data)
    /\ LET nf == Put(handlers[i].newFiles, data.path, data.content) IN
         /\ handlers' =
              Locals(i, "writeDelay", nf, Append(handlers[i].streamEvents, data))
         /\ files' = nf
    /\ activeFile' = DisplayPath(data.path)
    /\ writers' = writers \cup { "generation" }
    /\ UNCHANGED << isLoading, messages, sent, invocations >>
    /\ UNCHANGED outsidePage

\* page.tsx:209-210  the 300 ms timer fires
WriteDelayDone ==
  \E i \in 1..Len(handlers) :
    /\ handlers[i].pc = "writeDelay"
    /\ handlers' =
         Locals(i, "read", handlers[i].newFiles, handlers[i].streamEvents)
    /\ UNCHANGED << files, isLoading, messages, activeFile, sent, invocations,
                    writers >>
    /\ UNCHANGED outsidePage

\* page.tsx:186-231  any other event, a writeFile event without content
\* among them: it is recorded and changes no file
ReadOtherEvent ==
  \E i \in 1..Len(handlers), data \in WriteFileEvents \cup OtherEvents :
    /\ handlers[i].pc = "read"
    /\ Len(handlers[i].streamEvents) < MaxStreamEvents
    /\ ~IsAcceptedWrite(data)
    /\ handlers' =
         Locals(i, "read", handlers[i].newFiles,
                Append(handlers[i].streamEvents, data))
    /\ UNCHANGED << files, isLoading, messages, activeFile, sent, invocations,
                    writers >>
    /\ UNCHANGED outsidePage

\* page.tsx:176-177, 239-251, 259-261  the stream ends
ReadDone ==
  \E i \in 1..Len(handlers) :
    /\ handlers[i].pc = "read"
    /\ handlers' =
         Locals(i, "done", handlers[i].newFiles, handlers[i].streamEvents)
    /\ isLoading' = FALSE
    /\ UNCHANGED << files, messages, activeFile, sent, invocations, writers >>
    /\ UNCHANGED outsidePage

\* page.tsx:278-283
HandleFileSelect ==
  \E filePath \in SelectablePaths :
    /\ activeFile' = filePath
    /\ UNCHANGED << files, isLoading, messages, handlers, sent, invocations,
                    writers >>
    /\ UNCHANGED outsidePage

\* page.tsx:295-307, 738-743  the editor reports a change of the active file
HandleCodeChange ==
  /\ startsWith(activeFile, << "/", "src", "/" >>)
  /\ SourceFilePath(activeFile) # Null
  /\ files' = Put(files, SourceFilePath(activeFile), CodeEdited)
  /\ writers' = writers \cup { "editor" }
  /\ UNCHANGED << isLoading, messages, activeFile, handlers, sent,
                  invocations >>
  /\ UNCHANGED outsidePage

PageNext ==
  \/ HandleGenerateRejected
  \/ HandleGenerate
  \/ FetchFails
  \/ FetchResponds
  \/ ReadWriteFile
  \/ WriteDelayDone
  \/ ReadOtherEvent
  \/ ReadDone
  \/ HandleFileSelect
  \/ HandleCodeChange

allVars == << routeVars, outsideRoute >>

\* The initial states: this component as constructed, the others unused.
InitPage == PageInit /\ RouteOff /\ PreviewOff /\ ExpanderOff /\ ParserOff /\ GenerateOff /\ HistoryOff /\ SanitizerOff /\ EditorOff

PageSpec == InitPage /\ [][PageNext]_allVars

\* ------------------------------------------------------------------------
\* C14, C15  The FileSet and the generations that write it.
\* ------------------------------------------------------------------------

\* the paths of the writeFile events of a stream
WrittenPaths(evs) ==
  { evs[k].path : k \in { j \in 1..Len(evs) : evs[j].type = "writeFile" } }

\* the content of the last writeFile event of a stream for a path
LastContent(evs, p) ==
  LET K == { k \in 1..Len(evs) :
               evs[k].type = "writeFile" /\ evs[k].path = p }
  IN  evs[CHOOSE k \in K : \A j \in K : j <= k].content

\* the generations that have not finished
InFlight == { i \in 1..Len(handlers) : IsRunning(handlers[i]) }

\* C14: once a stream that wrote files is consumed (and the editor wrote
\* nothing meanwhile), every written path holds the content of its last
\* writeFile event, whatever that content is, and after a first generation
\* the FileSet has exactly the written paths.
C14_LastWriteWins ==
  \A i \in 1..Len(handlers) :
    LET h == handlers[i]
        W == WrittenPaths(h.streamEvents)
    IN  (h.pc = "done" /\ W # {} /\ "editor" \notin writers) =>
          /\ \A p \in W :
               p \in DOMAIN files /\ files[p] = LastContent(h.streamEvents, p)
          /\ ~h.isFollowUp => DOMAIN files = W

\* C15: at most one generation is in flight; an invocation of
\* handleGenerate made while one is in flight sends no request and appends
\* no message; while a generation is in flight nothing but the generation
\* writes the FileSet.
C15_OneGenerationSingleWriter ==
  /\ [](Cardinality(InFlight) <= 1)
  /\ [][(invocations' = invocations + 1 /\ InFlight # {}) =>
          (sent' = sent /\ messages' = messages)]_allVars
  /\ [](InFlight # {} => writers \subseteq { "generation" })

\* the step is a write of the path p: a generation takes a writeFile event
\* for p, or the editor changes the file shown from p
WritesTo(p) ==
  \/ /\ Len(handlers') = Len(handlers)
     /\ \E i \in 1..Len(handlers) :
          /\ Len(handlers'[i].streamEvents) =
               Len(handlers[i].streamEvents) + 1
          /\ LET data == handlers'[i].streamEvents[Len(handlers'[i].streamEvents)]
             IN  IsAcceptedWrite(data) /\ data.path = p
  \/ /\ SourceFilePath(activeFile) # Null
     /\ SourceFilePath(activeFile) = p
     /\ handlers' = handlers /\ activeFile' = activeFile
     /\ files' # files

\* the FileSet holds the text of an edit at p
HoldsEdit(fs, p) == p \in DOMAIN fs /\ fs[p] = CodeEdited

\* C28: the text of an edit stays in the FileSet until the next write to
\* the path that was edited; a writeFile event for another path does not
\* remove it.
C28_EditKept ==
  [][\A p \in { AppJs, CompAJs } :
       (HoldsEdit(files, p) /\ ~WritesTo(p)) => HoldsEdit(files', p)]_allVars

\* ------------------------------------------------------------------------
\* WebContainerPreview: the component that boots the sandbox, installs the
\* dependencies, starts the dev server and mounts the expanded tree.
\* ------------------------------------------------------------------------

MaxMounts == 3
MaxFileChanges == 2

outsidePreview == << routeVars, pageVars, expanderVars, parserVars, generateVars, historyVars, sanitizerVars, editorVars >>

\* part_009:195-201
PreviewInit ==
  /\ webcontainerInstance = FALSE
  /\ bootPromise = FALSE
  /\ isContainerInitialized = FALSE
  /\ serverRunning = FALSE
  /\ cachedPreviewUrl = FALSE
  /\ instances = << >>
  /\ previewFiles = 0
  /\ spawned = << >>
  /\ mounts = << >>
  /\ boots = << >>
  /\ containers = << >>

\* part_009:203-207  the state of a new instance: previewUrl starts as the
\* cached URL
Instance(isMounted, isReady, pos) ==
  [isMounted |-> isMounted, isReady |-> isReady, pc |-> pos,
   previewUrl |-> cachedPreviewUrl]

\* part_009:212-224  bootWebContainer: the container it returns, by the
\* number of the boot that made it, and the boots after the call
bootWebContainer_NoPromiseCheck(instance, promise, log, i) ==
  IF instance THEN [boots |-> log, container |-> Len(log)]
  ELSE [boots |-> Append(log, i), container |-> Len(log) + 1]

bootWebContainer(instance, promise, log, i) ==
  IF instance THEN [boots |-> log, container |-> Len(log)]
  ELSE IF promise THEN [boots |-> log, container |-> Len(log)]
  ELSE [boots |-> Append(log, i), container |-> Len(log) + 1]

\* the instance on the page, if any
Rendered == { i \in 1..Len(instances) : instances[i].isMounted }

\* container.mount(convertFilesToWebContainer(files))
mountFiles(log, cause) ==
  Append(log, [version |-> previewFiles, cause |-> cause])

\* container.spawn("npm", [...])
spawn(log, command, i) == Append(log, [command |-> command, by |-> i])

Count(log, command) ==
  Cardinality({ k \in 1..Len(log) : log[k].command = command })

\* part_009:279-347  the page renders the component: both effects run up
\* to their first await
MountComponent ==
  /\ Rendered = {}
  /\ Len(instances) < MaxMounts
  /\ IF isContainerInitialized /\ webcontainerInstance
       THEN \* init() updates the files; the second effect sees isReady
            /\ instances' =
                 Append(instances, Instance(TRUE, TRUE, "restoring"))
            /\ mounts' = mountFiles(mountFiles(mounts, "init"), "ready")
            /\ containers' = Append(containers, Len(boots))
            /\ UNCHANGED << bootPromise, boots >>
       ELSE \* init() boots; isReady is false, the second effect returns
            LET booted == bootWebContainer(webcontainerInstance, bootPromise,
                                           boots, Len(instances) + 1)
            IN  /\ instances' =
                     Append(instances, Instance(TRUE, FALSE, "boot"))
                /\ bootPromise' = TRUE
                /\ boots' = booted.boots
                /\ containers' = Append(containers, booted.container)
                /\ UNCHANGED mounts
  /\ UNCHANGED << webcontainerInstance, isContainerInitialized, serverRunning,
                  cachedPreviewUrl, previewFiles, spawned >>
  /\ UNCHANGED outsidePreview

\* part_009:327-329  the page stops rendering the component
UnmountComponent ==
  \E i \in Rendered :
    /\ instances' = [instances EXCEPT ![i].isMounted = FALSE]
    /\ UNCHANGED << webcontainerInstance, bootPromise, isContainerInitialized,
                    serverRunning, cachedPreviewUrl, previewFiles, spawned,
                    mounts >>
    /\ UNCHANGED << boots, containers, outsidePreview >>

\* part_009:288-295  the update of an initialized container is done
RestoreDone ==
  \E i \in 1..Len(instances) :
    /\ instances[i].pc = "restoring"
    /\ instances' =
         [instances EXCEPT ![i].pc = "done", ![i].isReady = TRUE,
                           ![i].previewUrl = @ \/ cachedPreviewUrl]
    /\ UNCHANGED << webcontainerInstance, bootPromise, isContainerInitialized,
                    serverRunning, cachedPreviewUrl, previewFiles, spawned,
                    mounts >>
    /\ UNCHANGED << boots, containers, outsidePreview >>

\* part_009:212-224, 302-307  the container is booted
BootResolves ==
  \E i \in 1..Len(instances) :
    /\ instances[i].pc = "boot"
    /\ webcontainerInstance' = TRUE
    /\ IF instances[i].isMounted
         THEN /\ instances' = [instances EXCEPT ![i].pc = "mounting"]
              /\ mounts' = mountFiles(mounts, "init")
         ELSE /\ instances' = [instances EXCEPT ![i].pc = "done"]
              /\ UNCHANGED mounts
    /\ UNCHANGED << bootPromise, isContainerInitialized, serverRunning,
                    cachedPreviewUrl, previewFiles, spawned >>
    /\ UNCHANGED << boots, containers, outsidePreview >>

\* part_009:307-311, 259-262  the tree is mounted; npm install is spawned
MountResolves ==
  \E i \in 1..Len(instances) :
    /\ instances[i].pc = "mounting"
    /\ IF instances[i].isMounted
         THEN /\ instances' = [instances EXCEPT ![i].pc = "installing"]
              /\ spawned' = spawn(spawned, "install", i)
         ELSE /\ instances' = [instances EXCEPT ![i].pc = "done"]
              /\ UNCHANGED spawned
    /\ UNCHANGED << webcontainerInstance, bootPromise, isContainerInitialized,
                    serverRunning, cachedPreviewUrl, previewFiles, mounts >>
    /\ UNCHANGED << boots, containers, outsidePreview >>

\* part_009:264-268, 316-322  npm install exits with an error
InstallFails ==
  \E i \in 1..Len(instances) :
    /\ instances[i].pc = "installing"
    /\ instances' = [instances EXCEPT ![i].pc = "done"]
    /\ UNCHANGED << webcontainerInstance, bootPromise, isContainerInitialized,
                    serverRunning, cachedPreviewUrl, previewFiles, spawned,
                    mounts >>
    /\ UNCHANGED << boots, containers, outsidePreview >>

\* part_009:264, 313-315, 226-256  npm install exits with 0; runDevServer
InstallExits ==
  \E i \in 1..Len(instances) :
    /\ instances[i].pc = "installing"
    /\ instances' = [instances EXCEPT ![i].pc = "done"]
    /\ IF instances[i].isMounted /\ ~serverRunning
         THEN /\ serverRunning' = TRUE
              /\ spawned' = spawn(spawned, "dev", i)
         ELSE UNCHANGED << serverRunning, spawned >>
    /\ UNCHANGED << webcontainerInstance, bootPromise, isContainerInitialized,
                    cachedPreviewUrl, previewFiles, mounts >>
    /\ UNCHANGED << boots, containers, outsidePreview >>

\* part_009:236-246  the dev server prints that it is ready, to the
\* WritableStream of the instance that started it (the first such line;
\* a later one changes nothing)
DevOutputReady ==
  \E k \in 1..Len(spawned) :
    LET i == spawned[k].by IN
      /\ spawned[k].command = "dev"
      /\ ~isContainerInitialized
      /\ isContainerInitialized' = TRUE
      /\ IF instances[i].isMounted /\ ~instances[i].isReady
           THEN /\ instances' = [instances EXCEPT ![i].isReady = TRUE]
                /\ mounts' = mountFiles(mounts, "ready")
           ELSE UNCHANGED << instances, mounts >>
      /\ UNCHANGED << webcontainerInstance, bootPromise, serverRunning,
                      cachedPreviewUrl, previewFiles, spawned >>
      /\ UNCHANGED << boots, containers, outsidePreview >>

\* part_009:249-256, 333-347  the container emits server-ready, to the
\* listener of the instance that started the server; the second effect of
\* that instance runs when its isReady changes
ServerReady ==
  \E k \in 1..Len(spawned) :
    LET i == spawned[k].by IN
      /\ spawned[k].command = "dev"
      /\ ~cachedPreviewUrl
      /\ isContainerInitialized' = TRUE
      /\ cachedPreviewUrl' = TRUE
      /\ IF instances[i].isMounted
           THEN /\ instances' = [instances EXCEPT ![i].isReady = TRUE,
                                                  ![i].previewUrl = TRUE]
                /\ mounts' = IF instances[i].isReady THEN mounts
                             ELSE mountFiles(mounts, "ready")
           ELSE UNCHANGED << instances, mounts >>
      /\ UNCHANGED << webcontainerInstance, bootPromise, serverRunning,
                      previewFiles, spawned >>
      /\ UNCHANGED << boots, containers, outsidePreview >>

\* part_009:333-347  the files prop changes; the second effect runs in the
\* rendered instance
FilesChange ==
  /\ previewFiles < MaxFileChanges
  /\ previewFiles' = previewFiles + 1
  /\ IF \E i \in Rendered : instances[i].isReady /\ webcontainerInstance
       THEN mounts' =
              Append(mounts, [version |-> previewFiles + 1, cause |-> "change"])
       ELSE UNCHANGED mounts
  /\ UNCHANGED << webcontainerInstance, bootPromise, isContainerInitialized,
                  serverRunning, cachedPreviewUrl, instances, spawned >>
  /\ UNCHANGED << boots, containers, outsidePreview >>

PreviewNext ==
  \/ MountComponent
  \/ UnmountComponent
  \/ RestoreDone
  \/ BootResolves
  \/ MountResolves
  \/ InstallFails
  \/ InstallExits
  \/ DevOutputReady
  \/ ServerReady
  \/ FilesChange

\* The initial states: this component as constructed, the others unused.
InitPreview == PreviewInit /\ RouteOff /\ PageOff /\ ExpanderOff /\ ParserOff /\ GenerateOff /\ HistoryOff /\ SanitizerOff /\ EditorOff

PreviewSpec == InitPreview /\ [][PreviewNext]_allVars

\* The steps the browser takes by itself: a pending promise of the
\* container (boot, mount, the exit of npm install) settles and the
\* continuation of the init() awaiting it runs; a started dev server prints
\* its banner and the container emits server-ready.  Mounting, unmounting
\* and changing the files are the page's, and need not happen.
FairPreviewSpec ==
  /\ PreviewSpec
  /\ WF_allVars(RestoreDone)
  /\ WF_allVars(BootResolves)
  /\ WF_allVars(MountResolves)
  /\ WF_allVars(InstallExits \/ InstallFails)
  /\ WF_allVars(DevOutputReady)
  /\ WF_allVars(ServerReady)

\* the i-th instance is on the page
Showing(i) == i <= Len(instances) /\ instances[i].isMounted

\* the i-th instance shows the preview: no overlay, the iframe on the URL
HasPreview(i) ==
  i <= Len(instances) /\ instances[i].isReady /\ instances[i].previewUrl

\* C25: once the dev server has reported ready, an instance that is on the
\* page then, or comes onto it later, eventually has isReady = true and
\* previewUrl equal to the server URL (or is taken off the page).
C25_MountedInstanceGetsPreview ==
  \A i \in 1..MaxMounts :
    (cachedPreviewUrl /\ Showing(i)) ~> (~Showing(i) \/ HasPreview(i))

\* C26: WebContainer.boot() is called at most once, however the mounts and
\* unmounts interleave with the boot, and the init() of every instance
\* works on the container of that one call.
C26_BootOnce ==
  /\ Len(boots) <= 1
  /\ \A i \in 1..Len(containers) : containers[i] = 1

\* two instances whose init() both wait for the boot, which has not
\* resolved
C26_Witness ==
  /\ Len(instances) >= 2
  /\ instances[1].pc = "boot" /\ instances[2].pc = "boot"
  /\ ~webcontainerInstance
  /\ Len(boots) = 1

\* C16: over any mounts, unmounts and FileSet changes, npm install is
\* spawned at most once, npm run dev is spawned at most once, and a FileSet
\* change made while the preview is ready mounts the new tree once.
C16_InstallAndRunOnce ==
  /\ Count(spawned, "install") <= 1
  /\ Count(spawned, "dev") <= 1
  /\ \A v \in 1..previewFiles :
       Cardinality({ k \in 1..Len(mounts) :
                       mounts[k] = [version |-> v, cause |-> "change"] }) <= 1

\* ------------------------------------------------------------------------
\* webcontainer-files: the expansion of a FileSet into a project.
\* Both results are kept as maps from the path of a file to its contents
\* (the nested tree of createProjectFiles is flattened: src > App.jsx is
\* /src/App.jsx).
\* ------------------------------------------------------------------------

CompFooterJs == << "/", "components", "/", "Footer.js" >>
StylesCss == << "/", "styles.css" >>

Quotes == { "'", "\"" }

\* import <name> from <q>./components/<file...><q>
ImportComponent(name, q, file) ==
  << "import", name, "from", q, ".", "/", "components", "/" >> \o file \o << q >>

\* import Footer from './Footer'
ImportSibling == << "import", "Footer", "from", "'", ".", "/", "Footer", "'" >>
\* export default function App() {
LineExportDefaultFunctionApp ==
  << "export", "default", "function", "App", "(", ")", "{" >>

\* part_000:207-210  /from ['"]\.\/components\/(\w+)['"]/ at the head of a
\* rest of a line
MatchesBareImport(l) ==
  /\ Len(l) >= 8
  /\ l[1] = "from" /\ l[2] \in Quotes
  /\ SubSeq(l, 3, 6) = << ".", "/", "components", "/" >>
  /\ l[7] \in Words /\ l[8] \in Quotes

\* part_000:213-216  /from ['"]\.\/components\/(\w+)\.js['"]/
MatchesJsImport(l) ==
  /\ Len(l) >= 9
  /\ l[1] = "from" /\ l[2] \in Quotes
  /\ SubSeq(l, 3, 6) = << ".", "/", "components", "/" >>
  /\ l[7] \in Words /\ l[8] = ".js" /\ l[9] \in Quotes

\* "from './components/$1.jsx'"
JsxImport(name) ==
  << "from", "'", ".", "/", "components", "/", name, ".jsx", "'" >>

RECURSIVE FixBareImports(_)
FixBareImports(l) ==
  IF l = << >> THEN << >>
  ELSE IF MatchesBareImport(l)
    THEN JsxImport(l[7]) \o FixBareImports(SubSeq(l, 9, Len(l)))
    ELSE << Head(l) >> \o FixBareImports(Tail(l))

RECURSIVE FixJsImports(_)
FixJsImports(l) ==
  IF l = << >> THEN << >>
  ELSE IF MatchesJsImport(l)
    THEN JsxImport(l[7]) \o FixJsImports(SubSeq(l, 10, Len(l)))
    ELSE << Head(l) >> \o FixJsImports(Tail(l))

\* part_000:204-218
fixImports(code) ==
  [k \in 1..Len(code) |-> FixJsImports(FixBareImports(code[k]))]

\* part_000:22-32  the built-in component
PlaceholderApp ==
  << LineExportDefaultFunctionApp, << "Ready to Build" >>, << "}" >> >>

\* obj[key] || other: other when the key is absent or holds ""
GetOr(obj, key, other) ==
  IF key \in DOMAIN obj /\ obj[key] # << >> THEN obj[key] ELSE other

\* fileName.endsWith(".js")
EndsWithJs(name) == name \in { "A.js", "App.js", "Footer.js" }

\* part_000:11-15, 316-320  the file name under src/components
jsxFileName(path) ==
  LET fileName == SubSeq(path, 4, Len(path))
  IN  [k \in 1..Len(fileName) |->
         IF k = Len(fileName) /\ EndsWithJs(fileName[k])
           THEN ReplaceJsByJsx(fileName[k]) ELSE fileName[k]]

ComponentPaths(fs) ==
  { p \in DOMAIN fs : startsWith(p, << "/", "components", "/" >>) }

SrcComponent(path) ==
  << "/", "src", "/", "components", "/" >> \o jsxFileName(path)

\* the files that do not depend on the input: their text is one token
Fixed(name) == << << name >> >>
TailwindLayers == << << "@tailwind base" >>, << "@tailwind components" >>,
                     << "@tailwind utilities" >> >>
BaseStyles == << << "*", "{", "}" >>, << "body", "{", "}" >> >>
SrcMainJsx == << "/", "src", "/", "main.jsx" >>

\* keys on which a map is some value and elsewhere another map
Overlay(base, keys, value(_)) ==
  [p \in DOMAIN base \cup keys |-> IF p \in keys THEN value(p) ELSE base[p]]

\* part_000:4-201
createProjectFiles(fs) ==
  LET appContent == GetOr(fs, AppJs, PlaceholderApp)
      customCSS == GetOr(fs, StylesCss, GetOr(fs, AppCss, << >>))
      project ==
        [p \in { << "/", "package.json" >>, << "/", "vite.config.js" >>,
                 << "/", "index.html" >>, << "/", "tailwind.config.js" >>,
                 << "/", "postcss.config.js" >>, SrcMainJsx, SrcIndexCss,
                 SrcAppJsx, << "/", "public", "/", "vite.svg" >> } |->
           IF p = SrcIndexCss THEN TailwindLayers \o customCSS \o BaseStyles
           ELSE IF p = SrcAppJsx THEN fixImports(appContent)
           ELSE Fixed(p[Len(p)])]
      component(q) ==
        fs[CHOOSE p \in ComponentPaths(fs) : SrcComponent(p) = q]
  IN  Overlay(project, { SrcComponent(p) : p \in ComponentPaths(fs) },
              component)

\* part_000:228-325
getExpandedProjectFiles(fs) ==
  LET customCSS == GetOr(fs, StylesCss, GetOr(fs, AppCss, << >>))
      appContent == GetOr(fs, AppJs, << >>)
      project ==
        [p \in { << "/", "package.json" >>, << "/", "vite.config.js" >>,
                 << "/", "index.html" >>, << "/", "tailwind.config.js" >>,
                 SrcMainJsx, SrcIndexCss, SrcAppJsx } |->
           IF p = SrcIndexCss THEN TailwindLayers \o customCSS
           ELSE IF p = SrcAppJsx THEN fixImports(appContent)
           ELSE Fixed(p[Len(p)])]
      component(q) ==
        fixImports(fs[CHOOSE p \in ComponentPaths(fs) : SrcComponent(p) = q])
  IN  Overlay(project, { SrcComponent(p) : p \in ComponentPaths(fs) },
              component)

\* inputs: which files the FileSet has and what they hold
Absent == << << "[absent]" >> >>
AppChoices ==
  { Absent, << >>,
    << LineExportDefaultFunctionApp >>,
    << ImportComponent("A", "'", << "A" >>), LineExportDefaultFunctionApp >>,
    << ImportComponent("A", "\"", << "A", ".js" >>),
       ImportComponent("Footer", "\"", << "Footer" >>),
       LineExportDefaultFunctionApp >>,
    << ImportComponent("A", "'", << "A", ".jsx" >>),
       LineExportDefaultFunctionApp >> }
CompAChoices ==
  { Absent,
    << LineExportDefaultFunctionA >>,
    << ImportSibling, LineExportDefaultFunctionA >>,
    << ImportComponent("Footer", "'", << "Footer" >>),
       LineExportDefaultFunctionA >>,
    << ImportComponent("Footer", "\"", << "Footer", ".js" >>),
       LineExportDefaultFunctionA >> }
CompFooterChoices == { Absent, << LineExportDefaultFunctionA >> }
CssChoices == { Absent, CodeCss }

FileSetOf(app, compA, footer, css) ==
  LET choice == [p \in { AppJs, CompAJs, CompFooterJs, AppCss } |->
                   IF p = AppJs THEN app
                   ELSE IF p = CompAJs THEN compA
                   ELSE IF p = CompFooterJs THEN footer ELSE css]
  IN  [p \in { q \in DOMAIN choice : choice[q] # Absent } |-> choice[p]]

UserFileSets ==
  { FileSetOf(app, compA, footer, css) :
      app \in AppChoices, compA \in CompAChoices,
      footer \in CompFooterChoices, css \in CssChoices }

\* import './A.css'
ImportDotACss == << "import", ".", "/", "A.css" >>
\* /components/A.js importing ./A.css
CodeCompADot == << ImportDotACss, LineExportDefaultFunctionA >>

\* route.ts:431-476 and page.tsx:191-195  the FileSet that the writeFile
\* events of one generation make: each written file sanitized, and a
\* placeholder for every imported stylesheet that was not written
AutoCompleted(written) ==
  LET required ==
        UNION { Range(extractCssImports(written[p], p)) : p \in DOMAIN written }
  IN  [p \in DOMAIN written \cup required |->
         IF p \in DOMAIN written THEN sanitizeCode(written[p])
         ELSE generatePlaceholderCss(p)]

\* what the tool calls of a generation may write
WrittenFileSets ==
  { FileSetOf(app, compA, Absent, css) :
      app \in { Absent, CodePlainApp, CodeApp },
      compA \in { Absent, CodeCompA, CodeCompADot },
      css \in CssChoices }

GeneratedFileSets == { AutoCompleted(w) : w \in WrittenFileSets }

outsideExpander == << routeVars, pageVars, previewVars, parserVars, generateVars, historyVars, sanitizerVars, editorVars >>

ExpanderInit ==
  /\ userFiles \in UserFileSets \cup GeneratedFileSets
  /\ tree = Unused
  /\ expanded = Unused

\* WebContainerPreview mounts the tree (part_009:271-277)
CreateProjectFiles ==
  /\ tree = Unused
  /\ tree' = createProjectFiles(userFiles)
  /\ UNCHANGED << userFiles, expanded >>
  /\ UNCHANGED outsideExpander

\* the page displays the tree (page.tsx:81)
GetExpandedProjectFiles ==
  /\ expanded = Unused
  /\ expanded' = getExpandedProjectFiles(userFiles)
  /\ UNCHANGED << userFiles, tree >>
  /\ UNCHANGED outsideExpander

ExpanderNext == CreateProjectFiles \/ GetExpandedProjectFiles

\* The initial states: this component as constructed, the others unused.
InitExpander == ExpanderInit /\ RouteOff /\ PageOff /\ PreviewOff /\ ParserOff /\ GenerateOff /\ HistoryOff /\ SanitizerOff /\ EditorOff

ExpanderSpec == InitExpander /\ [][ExpanderNext]_allVars

\* where a file of the FileSet is in the mounted tree
ExpandedLocation(p) == IF p = AppJs THEN SrcAppJsx ELSE SrcComponent(p)

\* import './X.css'
IsDotCssImport(line) ==
  IsCssImport(line) /\ Len(line) >= 4 /\ line[2] = "." /\ line[3] = "/"

\* the file an import './X.css' of the file p names, in the mounted tree
ImportTarget(p, line) ==
  LET at == ExpandedLocation(p)
  IN  SubSeq(at, 1, LastIndexOfSlash(at)) \o SubSeq(line, 4, Len(line))

\* C27: every import './X.css' of an emitted file names a file of the
\* mounted tree, relative to where the importing file is in that tree.
C27_CssImportsResolve ==
  tree # Unused =>
    \A p \in DOMAIN userFiles :
      (p = AppJs \/ p \in ComponentPaths(userFiles)) =>
        \A k \in 1..Len(userFiles[p]) :
          IsDotCssImport(userFiles[p][k]) =>
            ImportTarget(p, userFiles[p][k]) \in DOMAIN tree

\* ------------------------------------------------------------------------
\* C17, C18  The expanded project.
\* ------------------------------------------------------------------------

\* the rests of a line
Suffixes(l) == { SubSeq(l, i, Len(l)) : i \in 1..Len(l) }

\* the component names a text imports as ./components/Name or
\* ./components/Name.js
ImportedNames(code) ==
  { r[7] : r \in { x \in UNION { Suffixes(code[k]) : k \in 1..Len(code) } :
                     MatchesBareImport(x) \/ MatchesJsImport(x) } }

\* the text imports ./components/<name>.jsx
ImportsJsx(code, name) ==
  \E k \in 1..Len(code) : \E r \in Suffixes(code[k]) :
    Len(r) >= 9 /\ SubSeq(r, 1, 9) = JsxImport(name)

JsFile(name) == IF name = "A" THEN "A.js" ELSE "Footer.js"
JsxFile(name) == IF name = "A" THEN "A.jsx" ELSE "Footer.jsx"

\* the input files whose content is copied, each with the place of the copy
Copied ==
  { << p, SrcComponent(p) >> : p \in ComponentPaths(userFiles) }
    \cup (IF AppJs \in DOMAIN userFiles /\ userFiles[AppJs] # << >>
            THEN { << AppJs, SrcAppJsx >> } ELSE {})

NormalizedIn(out) ==
  /\ \A c \in Copied :
       /\ c[2] \in DOMAIN out
       /\ ImportedNames(out[c[2]]) = {}
       /\ \A n \in ImportedNames(userFiles[c[1]]) : ImportsJsx(out[c[2]], n)
  /\ AppJs \in DOMAIN userFiles =>
       \A n \in ImportedNames(userFiles[AppJs]) :
         << "/", "components", "/", JsFile(n) >> \in DOMAIN userFiles =>
           << "/", "src", "/", "components", "/", JsxFile(n) >> \in DOMAIN out

\* C17: in the tree of createProjectFiles and in the tree of
\* getExpandedProjectFiles, every ./components/Name and ./components/Name.js
\* import of the App entry and of every component file has become
\* ./components/Name.jsx, and a component imported from /App.js has its
\* file at src/components/Name.jsx.
C17_ImportsNormalizedEverywhere ==
  /\ tree # Unused => NormalizedIn(tree)
  /\ expanded # Unused => NormalizedIn(expanded)

ProjectFiles ==
  { << "/", "package.json" >>, << "/", "vite.config.js" >>,
    << "/", "index.html" >>, << "/", "tailwind.config.js" >>,
    SrcMainJsx, SrcIndexCss, SrcAppJsx }

PlaceholderIn(out) ==
  /\ ProjectFiles \subseteq DOMAIN out
  /\ out[SrcAppJsx] = PlaceholderApp
  /\ out[SrcAppJsx] # << >>

\* C18: when the FileSet has no /App.js, or an empty one, the project of
\* each expansion function is complete and its src/App.jsx is the built-in
\* placeholder component.
C18_PlaceholderApp ==
  (AppJs \notin DOMAIN userFiles \/ userFiles[AppJs] = << >>) =>
    /\ tree # Unused => PlaceholderIn(tree)
    /\ expanded # Unused => PlaceholderIn(expanded)

\* ------------------------------------------------------------------------
\* parseToolArguments on the characters of its argument (route.ts:122-184).
\* A string is a sequence of characters; a run of letters that no rule
\* looks into ("path", "App.js", "a") is one token.  The letters n and t
\* are tokens of their own: after a backslash they make an escape.
\* ------------------------------------------------------------------------

QUOTE == "\""
BACKSLASH == "\\"
NEWLINE == "[newline]"
TABCHAR == "[tab]"
SPACE == " "

\* JSON white space, and the class \s of the regular expressions
WhiteSpace == { SPACE, NEWLINE, TABCHAR }

Min(S) == CHOOSE x \in S : \A y \in S : x <= y
\* the largest element, 0 for the empty set
Max0(S) == IF S = {} THEN 0 ELSE CHOOSE x \in S : \A y \in S : y <= x

\* first position from i on that holds no white space; Len(s) + 1 if none
SkipWs(s, i) ==
  Min({ j \in i..(Len(s) + 1) : j = Len(s) + 1 \/ s[j] \notin WhiteSpace })

\* what a parse returns: a value and the position after it, or a failure
Failure == [ok |-> FALSE]
Success(value, next) == [ok |-> TRUE, value |-> value, next |-> next]

\* JSON.parse, a string from the position after its opening quote:
\* the escapes \" \\ \/ \n \t are decoded, another escape, a control
\* character or the end of the text is a SyntaxError
RECURSIVE ScanString(_, _, _)
ScanString(s, j, acc) ==
  IF j > Len(s) THEN Failure
  ELSE IF s[j] = QUOTE THEN Success(acc, j + 1)
  ELSE IF s[j] = BACKSLASH
    THEN IF j + 1 > Len(s) THEN Failure
         ELSE IF s[j + 1] \in { QUOTE, BACKSLASH, "/" }
           THEN ScanString(s, j + 2, Append(acc, s[j + 1]))
         ELSE IF s[j + 1] = "n" THEN ScanString(s, j + 2, Append(acc, NEWLINE))
         ELSE IF s[j + 1] = "t" THEN ScanString(s, j + 2, Append(acc, TABCHAR))
         ELSE Failure
  ELSE IF s[j] \in { NEWLINE, TABCHAR } THEN Failure
  ELSE ScanString(s, j + 1, Append(acc, s[j]))

\* the object {}
EmptyObject == [k \in {} |-> << >>]

\* JSON.parse, the members of an object from the position of a key on;
\* a later member replaces an earlier one with the same key
RECURSIVE ScanMembers(_, _, _)
ScanMembers(s, j, obj) ==
  IF j > Len(s) \/ s[j] # QUOTE THEN Failure
  ELSE
    LET key == ScanString(s, j + 1, << >>) IN
    IF ~key.ok THEN Failure
    ELSE
      LET colon == SkipWs(s, key.next) IN
      IF colon > Len(s) \/ s[colon] # ":" THEN Failure
      ELSE
        LET v == SkipWs(s, colon + 1) IN
        IF v > Len(s) \/ s[v] # QUOTE THEN Failure
        ELSE
          LET val == ScanString(s, v + 1, << >>) IN
          IF ~val.ok THEN Failure
          ELSE
            LET after == SkipWs(s, val.next)
                obj2 == Put(obj, key.value, val.value)
            IN  IF after > Len(s) THEN Failure
                ELSE IF s[after] = "}" THEN Success(obj2, after + 1)
                ELSE IF s[after] = ","
                  THEN ScanMembers(s, SkipWs(s, after + 1), obj2)
                ELSE Failure

\* what parseToolArguments returns
Miss == [kind |-> "null"]
AnObject(o) == [kind |-> "object", value |-> o]
AString(v) == [kind |-> "string", value |-> v]
Thrown == [kind |-> "SyntaxError"]

\* JSON.parse on texts that hold strings and objects of strings (the
\* inputs hold no number, literal, array or nested object)
JSONparse(s) ==
  LET start == SkipWs(s, 1) IN
  IF start > Len(s) THEN Thrown
  ELSE IF s[start] = QUOTE
    THEN LET str == ScanString(s, start + 1, << >>)
         IN  IF str.ok /\ SkipWs(s, str.next) > Len(s)
               THEN AString(str.value) ELSE Thrown
  ELSE IF s[start] = "{"
    THEN LET first == SkipWs(s, start + 1)
             obj == IF first <= Len(s) /\ s[first] = "}"
                      THEN Success(EmptyObject, first + 1)
                      ELSE ScanMembers(s, first, EmptyObject)
         IN  IF obj.ok /\ SkipWs(s, obj.next) > Len(s)
               THEN AnObject(obj.value) ELSE Thrown
  ELSE Thrown

\* s.replace(/<a><b>/g, c): every pair a b becomes c, left to right
RECURSIVE ReplacePair(_, _, _, _)
ReplacePair(s, a, b, c) ==
  IF s = << >> THEN << >>
  ELSE IF Len(s) >= 2 /\ s[1] = a /\ s[2] = b
    THEN << c >> \o ReplacePair(SubSeq(s, 3, Len(s)), a, b, c)
    ELSE << Head(s) >> \o ReplacePair(Tail(s), a, b, c)

\* route.ts:128-131  every newline and tab of the text, wherever it is,
\* becomes its escape
RECURSIVE EscapeControls(_)
EscapeControls(s) ==
  IF s = << >> THEN << >>
  ELSE (IF Head(s) = NEWLINE THEN << BACKSLASH, "n" >>
        ELSE IF Head(s) = TABCHAR THEN << BACKSLASH, "t" >>
        ELSE << Head(s) >>) \o EscapeControls(Tail(s))

\* positions where "<key>" starts
MarkerPositions(s, key) ==
  { i \in 1..(Len(s) - 2) :
      s[i] = QUOTE /\ s[i + 1] = key /\ s[i + 2] = QUOTE }

\* the end of a match of /"<key>"\s*:\s*"([^"]+)"/ that starts at i: the
\* position of its closing quote, 0 if there is no match at i
FieldMatchEnd(s, key, i) ==
  IF i \notin MarkerPositions(s, key) THEN 0
  ELSE LET colon == SkipWs(s, i + 3) IN
       IF colon > Len(s) \/ s[colon] # ":" THEN 0
       ELSE LET open == SkipWs(s, colon + 1) IN
            IF open > Len(s) \/ s[open] # QUOTE THEN 0
            ELSE LET Q == { j \in (open + 1)..Len(s) : s[j] = QUOTE } IN
                 IF Q = {} \/ Min(Q) = open + 1 THEN 0 ELSE Min(Q)

\* args.match(/"<key>"\s*:\s*"([^"]+)"/): the captured group of the
\* leftmost match, Null without a match
FieldMatch(s, key) ==
  LET I == { i \in 1..Len(s) : FieldMatchEnd(s, key, i) # 0 } IN
  IF I = {} THEN Null
  ELSE LET i == Min(I)
           close == FieldMatchEnd(s, key, i)
           open == Max0({ j \in 1..(close - 1) : s[j] = QUOTE })
       IN  [group |-> SubSeq(s, open + 1, close - 1)]

KeyPath == << "path" >>
KeyContent == << "content" >>
KeyDescription == << "description" >>

\* route.ts:145-158  the scan for the closing quote of the content: the
\* position of the first quote from i on that no backslash escapes, 0 if
\* there is none
RECURSIVE ClosingQuote(_, _, _)
ClosingQuote(a, i, escaped) ==
  IF i > Len(a) THEN 0
  ELSE IF escaped THEN ClosingQuote(a, i + 1, FALSE)
  ELSE IF a[i] = BACKSLASH THEN ClosingQuote(a, i + 1, TRUE)
  ELSE IF a[i] = QUOTE THEN i
  ELSE ClosingQuote(a, i + 1, FALSE)

\* route.ts:159-163  .replace(/\\n/g, "\n").replace(/\\"/g, '"')
\* .replace(/\\t/g, "\t")
Unescape(v) ==
  ReplacePair(ReplacePair(ReplacePair(v, BACKSLASH, "n", NEWLINE),
                          BACKSLASH, QUOTE, QUOTE),
              BACKSLASH, "t", TABCHAR)

\* route.ts:133-182  the third layer: the fields are cut out of the text
ExtractManually(s) ==
  LET pathMatch == FieldMatch(s, "path")
      descMatch == FieldMatch(s, "description")
      C == MarkerPositions(s, "content")
  IN
  IF C = {} \/ pathMatch = Null THEN Miss
  ELSE
    LET afterContent == SubSeq(s, Min(C), Len(s))
        Colons == { j \in 1..Len(afterContent) : afterContent[j] = ":" }
    IN
    IF Colons = {} THEN Miss
    ELSE
      LET colonPos == Min(Colons)
          Q == { j \in colonPos..Len(afterContent) : afterContent[j] = QUOTE }
          \* indexOf('"', colonPos) + 1; indexOf gives -1 without a quote
          valueStart == IF Q = {} THEN 1 ELSE Min(Q) + 1
          found == ClosingQuote(afterContent, valueStart, FALSE)
          valueEnd == IF found = 0 THEN valueStart ELSE found
          content == Unescape(SubSeq(afterContent, valueStart, valueEnd - 1))
          triple == Put(Put(EmptyObject, KeyPath, pathMatch.group),
                        KeyContent, content)
      IN  AnObject(IF descMatch = Null THEN triple
                   ELSE Put(triple, KeyDescription, descMatch.group))

\* JSON.parse threw on the text, and on the text with its controls escaped
ReachesThirdLayer(s) ==
  /\ JSONparse(s).kind = "SyntaxError"
  /\ JSONparse(EscapeControls(s)).kind = "SyntaxError"

\* route.ts:122-184  parseToolArguments, on the characters of args
parseArgumentText(s) ==
  IF JSONparse(s).kind # "SyntaxError" THEN JSONparse(s)
  ELSE IF JSONparse(EscapeControls(s)).kind # "SyntaxError"
    THEN JSONparse(EscapeControls(s))
  ELSE ExtractManually(s)

\* generate/route.ts:298-346  newlines and tabs inside a string become
\* their escapes.  What one character adds to the result:
FixedChar(char, inString, escapeNext) ==
  IF ~escapeNext /\ inString /\ char = NEWLINE THEN << BACKSLASH, "n" >>
  ELSE IF ~escapeNext /\ inString /\ char = TABCHAR
    THEN << BACKSLASH, "t" >>
  ELSE << char >>

\* the loop of lines 306-343: escapeNext holds for the character after a
\* backslash, a quote that is not escaped opens or closes a string
RECURSIVE fixJsonStringNewlines(_, _, _)
fixJsonStringNewlines(s, inString, escapeNext) ==
  IF s = << >> THEN << >>
  ELSE FixedChar(Head(s), inString, escapeNext)
         \o fixJsonStringNewlines(
               Tail(s),
               inString # (~escapeNext /\ Head(s) = QUOTE),
               ~escapeNext /\ Head(s) = BACKSLASH)

\* ------------------------------------------------------------------------
\* Inputs of the parser
\* ------------------------------------------------------------------------

MaxContentLen == 3

\* what a content is made of: a letter, a quote, a backslash, the letter n,
\* a newline written as its escape, a newline put in as it is
ContentItems ==
  { "a", "[quote]", "[backslash]", "n", "[newline escaped]",
    "[newline inserted]" }

Contents == UNION { [1..k -> ContentItems] : k \in 0..MaxContentLen }

\* the characters of a content
RECURSIVE Decoded(_)
Decoded(c) ==
  IF c = << >> THEN << >>
  ELSE << (CASE Head(c) = "[quote]" -> QUOTE
             [] Head(c) = "[backslash]" -> BACKSLASH
             [] Head(c) \in { "[newline escaped]", "[newline inserted]" } ->
                  NEWLINE
             [] OTHER -> Head(c)) >> \o Decoded(Tail(c))

\* the content as it stands between the quotes of the argument string
RECURSIVE Encoded(_)
Encoded(c) ==
  IF c = << >> THEN << >>
  ELSE (CASE Head(c) = "[quote]" -> << BACKSLASH, QUOTE >>
          [] Head(c) = "[backslash]" -> << BACKSLASH, BACKSLASH >>
          [] Head(c) = "[newline escaped]" -> << BACKSLASH, "n" >>
          [] Head(c) = "[newline inserted]" -> << NEWLINE >>
          [] OTHER -> << Head(c) >>) \o Encoded(Tail(c))

\* how the argument string is laid out: what follows a colon, and what
\* separates the members
Layouts ==
  { [colon |-> << >>, sep |-> << >>],
    [colon |-> << SPACE >>, sep |-> << SPACE >>],
    [colon |-> << SPACE >>, sep |-> << NEWLINE >>] }

Member(key, body, layout) ==
  << QUOTE, key, QUOTE, ":" >> \o layout.colon \o << QUOTE >> \o body
    \o << QUOTE >>

\* {"path": "/App.js", "content": "<content>", "description": "d"}
ArgumentString(c, layout) ==
  << "{" >> \o layout.sep
    \o Member("path", AppJs, layout) \o << "," >> \o layout.sep
    \o Member("content", Encoded(c), layout) \o << "," >> \o layout.sep
    \o Member("description", << "d" >>, layout) \o layout.sep \o << "}" >>

\* the same members, the content first
ContentFirst(c, layout) ==
  << "{" >> \o layout.sep
    \o Member("content", Encoded(c), layout) \o << "," >> \o layout.sep
    \o Member("path", AppJs, layout) \o layout.sep \o << "}" >>

Prefixes(s) == { SubSeq(s, 1, k) : k \in 0..Len(s) }

WellFormedStrings ==
  { ArgumentString(c, layout) : c \in Contents, layout \in Layouts }

\* truncated and damaged argument strings, and texts that are no object
DamagedStrings ==
  UNION { Prefixes(ArgumentString(<< "a", "[newline inserted]", "a" >>, l))
            \cup Prefixes(ContentFirst(<< "a", "[newline inserted]" >>, l)) :
          l \in Layouts }
    \cup { << QUOTE, "a", QUOTE >>, << "{", "}" >>, << "a" >> }

ArgStrings == WellFormedStrings \cup DamagedStrings

outsideParser == << routeVars, pageVars, previewVars, expanderVars, generateVars, historyVars, sanitizerVars, editorVars >>

ParserInit ==
  /\ argString \in ArgStrings
  /\ parsed = Unused

\* route.ts:424
ParseToolArguments ==
  /\ parsed = Unused
  /\ parsed' = parseArgumentText(argString)
  /\ UNCHANGED argString
  /\ UNCHANGED outsideParser

ParserNext == ParseToolArguments

\* The initial states: this component as constructed, the others unused.
InitParser == ParserInit /\ RouteOff /\ PageOff /\ PreviewOff /\ ExpanderOff /\ GenerateOff /\ HistoryOff /\ SanitizerOff /\ EditorOff

ParserSpec == InitParser /\ [][ParserNext]_allVars

\* ------------------------------------------------------------------------
\* C19, C20  What the parser returns.
\* ------------------------------------------------------------------------

\* the text has a "path" field: /"path"\s*:\s*"([^"]+)"/ matches
HasPathField(s) == FieldMatch(s, "path") # Null

\* the text has the marker "content"
HasContentMarker(s) == MarkerPositions(s, "content") # {}

IsTriple(r) ==
  /\ r.kind = "object"
  /\ KeyPath \in DOMAIN r.value
  /\ KeyContent \in DOMAIN r.value

\* C19: for every argument string the parser returns an object or null; in
\* the third layer it returns an object with path and content whenever the
\* text has a "path" field and a "content" marker, and null otherwise.
C19_ObjectOrMiss ==
  parsed # Unused =>
    /\ parsed.kind \in { "object", "null" }
    /\ ReachesThirdLayer(argString) =>
         IF HasPathField(argString) /\ HasContentMarker(argString)
           THEN IsTriple(parsed)
           ELSE parsed = Miss

\* the contents with a newline put in as it is
InsertedContents == { c \in Contents : "[newline inserted]" \in Range(c) }

\* {path: "/App.js", content: <the characters of c>, description: "d"}
Expected(c) ==
  Put(Put(Put(EmptyObject, KeyPath, AppJs), KeyContent, Decoded(c)),
      KeyDescription, << "d" >>)

\* C20: a well-formed argument string with unescaped newlines put into its
\* content parses to the same path and description and to the content with
\* those newlines, whatever else the content holds; so it does after
\* fixJsonStringNewlines.
C20_NewlineResilience ==
  parsed # Unused =>
    \A c \in InsertedContents, layout \in Layouts :
      argString = ArgumentString(c, layout) =>
        /\ parsed = AnObject(Expected(c))
        /\ JSONparse(fixJsonStringNewlines(argString, FALSE, FALSE))
             = AnObject(Expected(c))

\* ------------------------------------------------------------------------
\* generate/route.ts: the whole-response JSON recovery (lines 128-208) and
\* the answer of the route (210-243), on the characters of the response.
\* ------------------------------------------------------------------------

BACKTICK == "[backtick]"

\* a JSON value: a string, an object of values, null
NullValue == [kind |-> "null"]

\* JSON.parse on texts that hold strings, null and objects of them, nested
RECURSIVE ParseValue(_, _)
RECURSIVE ParseMembers(_, _, _)
ParseValue(s, j) ==
  IF j > Len(s) THEN Failure
  ELSE IF s[j] = QUOTE
    THEN LET str == ScanString(s, j + 1, << >>)
         IN  IF str.ok THEN Success(AString(str.value), str.next) ELSE Failure
  ELSE IF s[j] = "null" THEN Success(NullValue, j + 1)
  ELSE IF s[j] = "{"
    THEN LET first == SkipWs(s, j + 1)
         IN  IF first <= Len(s) /\ s[first] = "}"
               THEN Success(AnObject(EmptyObject), first + 1)
               ELSE ParseMembers(s, first, EmptyObject)
  ELSE Failure

ParseMembers(s, j, obj) ==
  IF j > Len(s) \/ s[j] # QUOTE THEN Failure
  ELSE
    LET key == ScanString(s, j + 1, << >>) IN
    IF ~key.ok THEN Failure
    ELSE
      LET colon == SkipWs(s, key.next) IN
      IF colon > Len(s) \/ s[colon] # ":" THEN Failure
      ELSE
        LET val == ParseValue(s, SkipWs(s, colon + 1)) IN
        IF ~val.ok THEN Failure
        ELSE
          LET after == SkipWs(s, val.next)
              obj2 == Put(obj, key.value, val.value)
          IN  IF after > Len(s) THEN Failure
              ELSE IF s[after] = "}" THEN Success(AnObject(obj2), after + 1)
              ELSE IF s[after] = ","
                THEN ParseMembers(s, SkipWs(s, after + 1), obj2)
              ELSE Failure

JSONparseValue(s) ==
  LET start == SkipWs(s, 1)
      v == ParseValue(s, start)
  IN  IF v.ok /\ SkipWs(s, v.next) > Len(s) THEN v.value ELSE Thrown

\* generate/route.ts:129  .replace(/<three backticks>json\n?/g, "") when
\* withJson, .replace(/<three backticks>\n?/g, "") otherwise
RECURSIVE RemoveFences(_, _)
RemoveFences(s, withJson) ==
  LET n == IF withJson THEN 4 ELSE 3
      Fences == { i \in 1..(Len(s) - n + 1) :
                    /\ \A k \in 0..2 : s[i + k] = BACKTICK
                    /\ withJson => s[i + 3] = "json" }
  IN  IF Fences = {} THEN s
      ELSE LET i == Min(Fences)
               m == IF i + n <= Len(s) /\ s[i + n] = NEWLINE
                      THEN n + 1 ELSE n
           IN  SubSeq(s, 1, i - 1)
                 \o RemoveFences(SubSeq(s, i + m, Len(s)), withJson)

\* String.prototype.trim
trim(s) ==
  LET I == { i \in 1..Len(s) : s[i] \notin WhiteSpace }
  IN  IF I = {} THEN << >> ELSE SubSeq(s, Min(I), Max0(I))

\* generate/route.ts:132-135  content.match(/\{[\s\S]*\}/): from the first
\* opening brace to the last closing brace, the text itself without a match
jsonMatch(s) ==
  LET Open == { i \in 1..Len(s) : s[i] = "{" }
      Close == { i \in 1..Len(s) : s[i] = "}" }
  IN  IF Open # {} /\ Close # {} /\ Min(Open) < Max0(Close)
        THEN SubSeq(s, Min(Open), Max0(Close))
        ELSE s

\* generate/route.ts:266-277  the position of the closing backtick, from j
\* on; a backslash takes the next character with it; Len(s) + 1 if none
RECURSIVE ClosingBacktick(_, _)
ClosingBacktick(s, j) ==
  IF j > Len(s) THEN j
  ELSE IF s[j] = BACKTICK THEN j
  ELSE IF s[j] = BACKSLASH /\ j + 1 <= Len(s) THEN ClosingBacktick(s, j + 2)
  ELSE ClosingBacktick(s, j + 1)

\* generate/route.ts:280-285
RECURSIVE EscapeForJson(_)
EscapeForJson(s) ==
  IF s = << >> THEN << >>
  ELSE (CASE Head(s) = BACKSLASH -> << BACKSLASH, BACKSLASH >>
          [] Head(s) = QUOTE -> << BACKSLASH, QUOTE >>
          [] Head(s) = NEWLINE -> << BACKSLASH, "n" >>
          [] Head(s) = TABCHAR -> << BACKSLASH, "t" >>
          [] OTHER -> << Head(s) >>) \o EscapeForJson(Tail(s))

\* generate/route.ts:256-296  every backtick, wherever it stands, opens a
\* segment that is rewritten as a double-quoted string; the other
\* characters are copied
RECURSIVE fixBackticksInJson(_, _)
fixBackticksInJson(jsonStr, i) ==
  LET Opening == { k \in i..Len(jsonStr) : jsonStr[k] = BACKTICK } IN
  IF Opening = {} THEN SubSeq(jsonStr, i, Len(jsonStr))
  ELSE LET open == Min(Opening)
           j == ClosingBacktick(jsonStr, open + 1)
       IN  SubSeq(jsonStr, i, open - 1) \o << QUOTE >>
             \o EscapeForJson(SubSeq(jsonStr, open + 1, j - 1))
             \o << QUOTE >> \o fixBackticksInJson(jsonStr, j + 1)

\* generate/route.ts:157-159  .replace(/,\s*}/g, "}").replace(/,\s*]/g, "]")
RECURSIVE StripTrailingCommas(_, _)
StripTrailingCommas(s, closer) ==
  LET Commas == { i \in 1..Len(s) :
                    /\ s[i] = ","
                    /\ SkipWs(s, i + 1) <= Len(s)
                    /\ s[SkipWs(s, i + 1)] = closer }
  IN  IF Commas = {} THEN s
      ELSE LET i == Min(Commas) IN
           SubSeq(s, 1, i - 1) \o << closer >>
             \o StripTrailingCommas(SubSeq(s, SkipWs(s, i + 1) + 1, Len(s)),
                                     closer)

Repeat(c, n) == [k \in 1..n |-> c]

TruncatedDescription ==
  << ",", SPACE, QUOTE, "description", QUOTE, ":", SPACE, QUOTE,
     "Generated (response was truncated)", QUOTE >>

\* generate/route.ts:162-182  the text up to its last quote, a description
\* if it has none, and the braces that are still open
CloseTruncated(fixedContent) ==
  LET Q == { i \in 1..Len(fixedContent) : fixedContent[i] = QUOTE }
      lastQuote == Max0(Q)
      beforeLastQuote == SubSeq(fixedContent, 1, lastQuote)
      openBraces ==
        Cardinality({ i \in 1..lastQuote : fixedContent[i] = "{" })
      closeBraces ==
        Cardinality({ i \in 1..lastQuote : fixedContent[i] = "}" })
      needClosing == openBraces - closeBraces
  IN  IF lastQuote > 1 /\ needClosing > 0
        THEN IF MarkerPositions(beforeLastQuote, "description") = {}
               THEN beforeLastQuote \o TruncatedDescription
                      \o Repeat("}", needClosing)
               ELSE beforeLastQuote \o Repeat("}", needClosing)
        ELSE fixedContent

\* generate/route.ts:348-409  normalizeReactImports, for the hook useState:
\* React.useState becomes useState; when the hook is called, it is imported
\* from 'react' by a new import line or by the import list that is there
ReactImport(names) ==
  << "import", SPACE, "{", SPACE >> \o names
    \o << SPACE, "}", SPACE, "from 'react'" >>

\* the leftmost match of /import\s*\{([^}]*)\}\s*from\s*['"]react['"]/:
\* where it starts, where its list closes and where it ends; Null if none
ImportMatch(code) ==
  LET ends(i) ==
        LET open == SkipWs(code, i + 1)
            Close == { k \in (open + 1)..Len(code) : code[k] = "}" }
        IN  IF code[i] = "import" /\ open <= Len(code) /\ code[open] = "{"
               /\ Close # {}
              THEN LET last == SkipWs(code, Min(Close) + 1)
                   IN  IF last <= Len(code) /\ code[last] = "from 'react'"
                         THEN [open |-> open, close |-> Min(Close),
                               last |-> last]
                         ELSE Null
              ELSE Null
      I == { i \in 1..Len(code) : ends(i) # Null }
  IN  IF I = {} THEN Null
      ELSE [first |-> Min(I), open |-> ends(Min(I)).open,
            close |-> ends(Min(I)).close, last |-> ends(Min(I)).last]

normalizeReactImports(code) ==
  LET direct == [k \in 1..Len(code) |->
                   IF code[k] = "React.useState" THEN "useState" ELSE code[k]]
      used == \E k \in 1..Len(direct) :
                /\ direct[k] = "useState"
                /\ SkipWs(direct, k + 1) <= Len(direct)
                /\ direct[SkipWs(direct, k + 1)] = "("
      hasReactImport == "from 'react'" \in Range(direct)
      m == ImportMatch(direct)
  IN  IF ~used THEN direct
      ELSE IF ~hasReactImport
        THEN ReactImport(<< "useState" >>) \o << ";", NEWLINE, NEWLINE >>
               \o direct
      ELSE IF m = Null THEN direct
      ELSE
        LET list == SubSeq(direct, m.open + 1, m.close - 1)
            currentImports ==
              SelectSeq(list, LAMBDA t : t \notin WhiteSpace \cup { "," })
        IN  IF "useState" \in Range(currentImports) THEN direct
            ELSE SubSeq(direct, 1, m.first - 1)
                   \o ReactImport(
                        (IF currentImports = << >> THEN << >>
                         ELSE currentImports \o << ",", SPACE >>)
                          \o << "useState" >>)
                   \o SubSeq(direct, m.last + 1, Len(direct))

\* JavaScript truthiness of a JSON value
Truthy(v) ==
  \/ v.kind = "object"
  \/ v.kind = "string" /\ v.value # << >>

\* result.<key>, undefined read as null
Property(v, key) ==
  IF v.kind = "object" /\ key \in DOMAIN v.value THEN v.value[key]
  ELSE NullValue

KeyType == << "type" >>
KeyMessage == << "message" >>
KeyFiles == << "files" >>

\* generate/route.ts:187-207  the fallback result: an error component
ErrorReason(limited) ==
  IF limited
    THEN << "The response was too long and got truncated. Try a simpler prompt." >>
    ELSE << "There was an issue generating your component. Please try again." >>

ErrorComponent(limited) ==
  << "export", SPACE, "default", SPACE, "function", SPACE, "App", "(", ")",
     SPACE, "{", "Generation Error" >> \o ErrorReason(limited) \o << "}" >>

FallbackResult(limited) ==
  AnObject(Put(Put(EmptyObject, KeyFiles,
                   AnObject(Put(EmptyObject, AppJs,
                                AString(ErrorComponent(limited))))),
               KeyDescription, AString(ErrorReason(limited))))

\* generate/route.ts:230-236
NoComponentApp ==
  << "export", SPACE, "default", SPACE, "function", SPACE, "App", "(", ")",
     SPACE, "{", "No component generated", "}" >>

\* generate/route.ts:219-237  the files of a code response
processedFiles(res) ==
  LET fs == Property(res, KeyFiles)
      Paths == IF fs.kind = "object"
                 THEN { p \in DOMAIN fs.value :
                          /\ fs.value[p].kind = "string"
                          /\ p # << >> /\ EndsWithJs(p[Len(p)]) }
                 ELSE {}
      processed == [p \in Paths |-> normalizeReactImports(fs.value[p].value)]
  IN  IF AppJs \in Paths /\ processed[AppJs] # << >> THEN processed
      ELSE Put(processed, AppJs, NoComponentApp)

\* what the route answers
ChatResponse(m) == [status |-> 200, type |-> "chat", message |-> m]
CodeResponse(fs, d) ==
  [status |-> 200, type |-> "code", files |-> fs, description |-> d]
\* generate/route.ts:244-252
ErrorResponse == [status |-> 500, error |-> "Failed to generate code"]

\* ------------------------------------------------------------------------
\* Inputs of the non-streaming route: what the model may answer
\* ------------------------------------------------------------------------

\* the text of a string value as it stands between its quotes: plain, with
\* a template literal, with a newline put in as it is, with an escaped
\* quote, empty, with a hook call, with a comma before a brace
StringBodies ==
      { << "a" >>,
        << "a", SPACE, BACKTICK, "a", BACKTICK >>,
        << "a", NEWLINE, "a" >>,
        << "a", BACKSLASH, QUOTE, "a" >>,
        << >>,
        << "useState", "(", ")" >>,
        << "React.useState", "(", ")" >>,
        << "import", SPACE, "{", SPACE, "useEffect", SPACE, "}", SPACE,
           "from 'react'", ";", "useState", "(", ")" >>,
        << "a", ",", "}" >> }

Quoted(body) == << QUOTE >> \o body \o << QUOTE >>

\* {"type":"chat","message":"<body>"}
ChatText(body) ==
  << "{", QUOTE, "type", QUOTE, ":", QUOTE, "chat", QUOTE, ",",
     QUOTE, "message", QUOTE, ":" >> \o Quoted(body) \o << "}" >>

\* {"files":{"<path>":<value>},"description":"d"}
CodeText(path, value) ==
  << "{", QUOTE, "files", QUOTE, ":", "{" >> \o Quoted(path) \o << ":" >>
    \o value
    \o << "}", ",", QUOTE, "description", QUOTE, ":", QUOTE, "d", QUOTE,
          "}" >>

Fence == << BACKTICK, BACKTICK, BACKTICK >>

\* the answers that are strict JSON
StrictTexts ==
  { ChatText(b) : b \in StringBodies \ { << "a", NEWLINE, "a" >> } }
    \cup { CodeText(p, Quoted(b)) :
             p \in { AppJs, CompAJs, AppCss },
             b \in StringBodies \ { << "a", NEWLINE, "a" >> } }
    \cup { << "null" >>, << QUOTE, "a", QUOTE >>, << "{", "}" >> }

\* the answers that need a repair, and those that nothing repairs
LooseTexts ==
  { ChatText(<< "a", NEWLINE, "a" >>),
    CodeText(AppJs, Quoted(<< "a", NEWLINE, "a" >>)),
    CodeText(AppJs, << BACKTICK, "a", NEWLINE, "a", BACKTICK >>),
    CodeText(AppJs, << BACKTICK, "a", QUOTE, "a" >>),
    << "{", QUOTE, "type", QUOTE, ":", QUOTE, "chat", QUOTE, ",",
       QUOTE, "message", QUOTE, ":", QUOTE, "a", QUOTE, ",", SPACE, "}" >>,
    << "a" >>, << >> }
    \cup Prefixes(CodeText(AppJs, Quoted(<< "a" >>)))

\* an answer inside a code fence, and one with prose around it
Wrapped(text) ==
  { Fence \o << "json", NEWLINE >> \o text \o << NEWLINE >> \o Fence,
    Fence \o << NEWLINE >> \o text \o Fence,
    << "Here", SPACE >> \o text \o << SPACE, "a" >> }

ResponseTexts ==
  StrictTexts \cup LooseTexts
    \cup Wrapped(ChatText(<< "a" >>))
    \cup Wrapped(CodeText(AppJs, Quoted(<< "a", NEWLINE, "a" >>)))

\* generate/route.ts:107  bodies with one choice, and the body without
Bodies ==
  { [choices |-> << [message |-> [content |-> text],
                     finish_reason |-> reason] >>] :
      text \in ResponseTexts, reason \in { "stop", "length" } }
    \cup { [choices |-> << >>] }

\* ------------------------------------------------------------------------
\* POST of generate/route.ts, from the answer of the model on
\* ------------------------------------------------------------------------

outsideGenerate ==
  << routeVars, pageVars, previewVars, expanderVars, parserVars, historyVars, sanitizerVars, editorVars >>

GenerateInit ==
  /\ llmData \in Bodies
  /\ genStep = "received"
  /\ contentText = << >>
  /\ wasLengthLimited = FALSE
  /\ parseResult = Unused
  /\ layers = << >>
  /\ answer = Unused

\* generate/route.ts:107-117
ReadData ==
  /\ genStep = "received"
  /\ Len(llmData.choices) > 0
  /\ wasLengthLimited' = (llmData.choices[1].finish_reason = "length")
  /\ contentText' = llmData.choices[1].message.content
  /\ genStep' = "clean"
  /\ UNCHANGED << llmData, parseResult, layers, answer >>
  /\ UNCHANGED outsideGenerate

\* generate/route.ts:117, 244-252  data.choices[0] is undefined: the
\* TypeError is caught by the handler's catch
ReadDataThrows ==
  /\ genStep = "received"
  /\ Len(llmData.choices) = 0
  /\ answer' = ErrorResponse
  /\ genStep' = "answered"
  /\ UNCHANGED << llmData, contentText, wasLengthLimited, parseResult,
                  layers >>
  /\ UNCHANGED outsideGenerate

\* generate/route.ts:129-135
CleanUp ==
  /\ genStep = "clean"
  /\ contentText' =
       jsonMatch(trim(RemoveFences(RemoveFences(contentText, TRUE), FALSE)))
  /\ genStep' = "backticks"
  /\ UNCHANGED << llmData, wasLengthLimited, parseResult, layers, answer >>
  /\ UNCHANGED outsideGenerate

\* generate/route.ts:139
FixBackticks ==
  /\ genStep = "backticks"
  /\ contentText' = fixBackticksInJson(contentText, 1)
  /\ layers' = Append(layers, "backticks")
  /\ genStep' = "newlines"
  /\ UNCHANGED << llmData, wasLengthLimited, parseResult, answer >>
  /\ UNCHANGED outsideGenerate

\* generate/route.ts:143
FixNewlines ==
  /\ genStep = "newlines"
  /\ contentText' = fixJsonStringNewlines(contentText, FALSE, FALSE)
  /\ layers' = Append(layers, "newlines")
  /\ genStep' = "parse"
  /\ UNCHANGED << llmData, wasLengthLimited, parseResult, answer >>
  /\ UNCHANGED outsideGenerate

\* generate/route.ts:148
ParseContent ==
  /\ genStep = "parse"
  /\ JSONparseValue(contentText) # Thrown
  /\ parseResult' = JSONparseValue(contentText)
  /\ layers' = Append(layers, "parse")
  /\ genStep' = "respond"
  /\ UNCHANGED << llmData, contentText, wasLengthLimited, answer >>
  /\ UNCHANGED outsideGenerate

\* generate/route.ts:149-152
ParseContentThrows ==
  /\ genStep = "parse"
  /\ JSONparseValue(contentText) = Thrown
  /\ layers' = Append(layers, "parse failed")
  /\ genStep' = "repair"
  /\ UNCHANGED << llmData, contentText, wasLengthLimited, parseResult,
                  answer >>
  /\ UNCHANGED outsideGenerate

\* generate/route.ts:157-182  fixedContent
Repaired(text, limited) ==
  LET stripped == StripTrailingCommas(StripTrailingCommas(text, "}"), "]")
  IN  IF limited THEN CloseTruncated(stripped) ELSE stripped

RepairLayers(limited) ==
  IF limited THEN << "commas", "truncation" >> ELSE << "commas" >>

\* generate/route.ts:155-184
RepairContent ==
  /\ genStep = "repair"
  /\ JSONparseValue(Repaired(contentText, wasLengthLimited)) # Thrown
  /\ parseResult' = JSONparseValue(Repaired(contentText, wasLengthLimited))
  /\ layers' = layers \o RepairLayers(wasLengthLimited) \o << "parse" >>
  /\ genStep' = "respond"
  /\ UNCHANGED << llmData, contentText, wasLengthLimited, answer >>
  /\ UNCHANGED outsideGenerate

\* generate/route.ts:185-207
RepairContentThrows ==
  /\ genStep = "repair"
  /\ JSONparseValue(Repaired(contentText, wasLengthLimited)) = Thrown
  /\ parseResult' = FallbackResult(wasLengthLimited)
  /\ layers' = layers \o RepairLayers(wasLengthLimited)
                 \o << "parse failed", "fallback" >>
  /\ genStep' = "respond"
  /\ UNCHANGED << llmData, contentText, wasLengthLimited, answer >>
  /\ UNCHANGED outsideGenerate

IsChat(res) == Property(res, KeyType) = AString(<< "chat" >>)

\* generate/route.ts:211-216
RespondChat ==
  /\ genStep = "respond"
  /\ parseResult # NullValue
  /\ IsChat(parseResult)
  /\ answer' =
       ChatResponse(IF Truthy(Property(parseResult, KeyMessage))
                      THEN Property(parseResult, KeyMessage)
                      ELSE AString(<< "I'm here to help!" >>))
  /\ genStep' = "answered"
  /\ UNCHANGED << llmData, contentText, wasLengthLimited, parseResult,
                  layers >>
  /\ UNCHANGED outsideGenerate

\* generate/route.ts:219-243
RespondCode ==
  /\ genStep = "respond"
  /\ parseResult # NullValue
  /\ ~IsChat(parseResult)
  /\ answer' =
       CodeResponse(processedFiles(parseResult),
                    IF Truthy(Property(parseResult, KeyDescription))
                      THEN Property(parseResult, KeyDescription)
                      ELSE AString(<< "Generated successfully" >>))
  /\ genStep' = "answered"
  /\ UNCHANGED << llmData, contentText, wasLengthLimited, parseResult,
                  layers >>
  /\ UNCHANGED outsideGenerate

\* generate/route.ts:211, 244-252  result is null: reading result.type is a
\* TypeError, caught by the handler's catch
RespondThrows ==
  /\ genStep = "respond"
  /\ parseResult = NullValue
  /\ answer' = ErrorResponse
  /\ genStep' = "answered"
  /\ UNCHANGED << llmData, contentText, wasLengthLimited, parseResult,
                  layers >>
  /\ UNCHANGED outsideGenerate

GenerateNext ==
  \/ ReadData \/ ReadDataThrows \/ CleanUp \/ FixBackticks \/ FixNewlines
  \/ ParseContent \/ ParseContentThrows \/ RepairContent
  \/ RepairContentThrows \/ RespondChat \/ RespondCode \/ RespondThrows

\* The initial states: this component as constructed, the others unused.
InitGenerate ==
  GenerateInit /\ RouteOff /\ PageOff /\ PreviewOff /\ ExpanderOff
    /\ ParserOff /\ HistoryOff /\ SanitizerOff /\ EditorOff

GenerateSpec == InitGenerate /\ [][GenerateNext]_allVars

\* ------------------------------------------------------------------------
\* C21, C22  The recovery layers and the answer of the route.
\* ------------------------------------------------------------------------

HasContent == Len(llmData.choices) > 0

\* the answer of the model after its fences are stripped and the text from
\* the first to the last brace is taken: what the direct parse is made on
DirectText ==
  LET text == llmData.choices[1].message.content
  IN  jsonMatch(trim(RemoveFences(RemoveFences(text, TRUE), FALSE)))

Rewriting == { "backticks", "newlines", "commas", "truncation" }

\* a parse failed before step i
FailedBefore(i) == \E j \in 1..(i - 1) : layers[j] = "parse failed"

\* C21: an answer that is strict JSON once its fences are stripped is
\* returned as the direct parse gives it and no repair layer runs on it;
\* every rewriting layer runs only after a parse has failed, and the
\* truncation repair only on an answer flagged as cut by the length limit.
C21_LayersOnlyAfterFailure ==
  (genStep \in { "respond", "answered" } /\ HasContent) =>
    /\ JSONparseValue(DirectText) # Thrown =>
         /\ parseResult = JSONparseValue(DirectText)
         /\ Range(layers) \cap Rewriting = {}
    /\ \A i \in 1..Len(layers) :
         layers[i] \in Rewriting => FailedBefore(i)
    /\ "truncation" \in Range(layers) =>
         llmData.choices[1].finish_reason = "length"

\* the answer is the fallback error component
IsFallbackAnswer ==
  /\ answer.status = 200 /\ answer.type = "code"
  /\ \E limited \in BOOLEAN : answer.files[AppJs] = ErrorComponent(limited)

\* every layer failed: no parse of the rewritten text, none of its repair
EveryLayerFailed ==
  /\ JSONparseValue(contentText) = Thrown
  /\ JSONparseValue(Repaired(contentText, wasLengthLimited)) = Thrown

\* C22: whatever body the model answers with, the route answers with a chat
\* response or with a code response that has a non-empty /App.js, never
\* with an error status; the fallback error component is the answer only
\* when every layer failed.
C22_AlwaysChatOrCode ==
  genStep = "answered" =>
    /\ answer.status = 200
    /\ \/ answer.type = "chat"
       \/ /\ answer.type = "code"
          /\ AppJs \in DOMAIN answer.files
          /\ answer.files[AppJs] # << >>
    /\ IsFallbackAnswer => EveryLayerFailed

\* ------------------------------------------------------------------------
\* The conversation history sent with a request: handleGenerate builds the
\* body (page.tsx:149-160), POST builds the message list (generate-stream/
\* route.ts:287, 308-338) and callGroqAPI puts the system prompt in front
\* (route.ts:202-206).
\* ------------------------------------------------------------------------

\* most exchanges (a user message and its assistant message) held by the
\* conversation when the request is made
MaxExchanges == 3

UserContents == { << "build", "a", "counter" >>, << "add", "a", "footer" >> }
AssistantContents == { << "Your app is ready!" >>, << "Error: Failed to generate" >> }

\* page.tsx:123-139, 242-246  one exchange: the user message and the
\* finished assistant message
Exchanges ==
  { << [role |-> "user", content |-> u],
       [role |-> "assistant", content |-> a] >> :
      u \in UserContents, a \in AssistantContents }

RECURSIVE Conversations(_)
Conversations(n) ==
  IF n = 0 THEN { << >> }
  ELSE { c \o e : c \in Conversations(n - 1), e \in Exchanges }

outsideHistory ==
  << routeVars, pageVars, previewVars, expanderVars, parserVars, generateVars, sanitizerVars, editorVars >>

HistoryInit ==
  /\ conversation \in UNION { Conversations(n) : n \in 0..MaxExchanges }
  /\ requestBody = Unused
  /\ apiMessages = Unused

\* page.tsx:145-160  the body of the request
SendRequest ==
  /\ requestBody = Unused
  /\ \E currentPrompt \in UserContents, fs \in { DEFAULT_FILES, EmptyFiles } :
       requestBody' =
         [prompt |-> currentPrompt,
          currentFiles |-> IF Len(conversation) > 0 THEN fs ELSE Null,
          conversationHistory |->
            [i \in 1..Len(LastFour(conversation)) |->
               [role |-> LastFour(conversation)[i].role,
                content |-> LastFour(conversation)[i].content]]]
  /\ UNCHANGED << conversation, apiMessages >>
  /\ UNCHANGED outsideHistory

\* route.ts:322-336  the prompt, with the files in front of it when the
\* request carries any
userPrompt(body) ==
  IF body.currentFiles # Null /\ DOMAIN body.currentFiles # {}
    THEN [files |-> body.currentFiles, request |-> body.prompt]
    ELSE [request |-> body.prompt]

SystemMessage == [role |-> "system", content |-> << "system prompt" >>]

\* route.ts:287, 308-338, 202-206  the message list sent to the model
BuildMessages ==
  /\ requestBody # Unused
  /\ apiMessages = Unused
  /\ apiMessages' =
       << SystemMessage >>
         \o [i \in 1..Len(requestBody.conversationHistory) |->
               [role |-> IF requestBody.conversationHistory[i].role = "user"
                           THEN "user" ELSE "assistant",
                content |-> requestBody.conversationHistory[i].content]]
         \o << [role |-> "user", content |-> userPrompt(requestBody)] >>
  /\ UNCHANGED << conversation, requestBody >>
  /\ UNCHANGED outsideHistory

HistoryNext == SendRequest \/ BuildMessages

\* The initial states: this component as constructed, the others unused.
InitHistory ==
  HistoryInit /\ RouteOff /\ PageOff /\ PreviewOff /\ ExpanderOff
    /\ ParserOff /\ GenerateOff /\ SanitizerOff /\ EditorOff

HistorySpec == InitHistory /\ [][HistoryNext]_allVars

\* C23: when the conversation holds more than 4 messages, the message list
\* sent to the model is the system prompt, then the last 4 messages of the
\* conversation, in their order, then the new user prompt, and nothing else.
C23_LastFourForwarded ==
  (apiMessages # Unused /\ Len(conversation) > 4) =>
    /\ Len(apiMessages) = 6
    /\ apiMessages[1].role = "system"
    /\ \A i \in 1..4 :
         LET m == conversation[Len(conversation) - 4 + i]
         IN  apiMessages[1 + i] = [role |-> m.role, content |-> m.content]
    /\ apiMessages[6].role = "user"
    /\ apiMessages[6].content.request = requestBody.prompt

\* a request was made on a conversation of more than 4 messages whose
\* first and last four differ
C23_Witness ==
  /\ apiMessages # Unused
  /\ Len(conversation) > 4
  /\ SubSeq(conversation, 1, 4) # LastFour(conversation)

\* ------------------------------------------------------------------------
\* sanitizeCode on the text of a file (generate-stream/route.ts:83-117):
\* ten replacements, one after the other, each over the whole text.  A text
\* is a sequence of tokens; a word, a quote, a parenthesis, a brace, ">" and
\* a white-space character are tokens, and an attribute name with its "="
\* ("id=", "className=") is one token, as every rule that looks at "="
\* wants a word before it and a quote after it.
\* ------------------------------------------------------------------------

APOSTROPHE == "'"

\* the tokens \w+= can end in
AttributeNames == { "id=", "className=" }

\* the token at a position, and a token of no class outside the text
At(s, i) == IF i \in 1..Len(s) THEN s[i] ELSE "[end]"

\* ^ under the flag m
LineStart(s, i) == i = 1 \/ At(s, i - 1) = NEWLINE

\* what a rule found at a position: the last position it matched and the
\* text it puts there; end = 0 when it does not match
NoMatch == [end |-> 0, out |-> << >>]

\* default\s+(\w+)\s*\(  from position i: where "(" is, and the name
AfterDefault(s, i) ==
  LET w == SkipWs(s, i + 1)
      p == SkipWs(s, w + 1)
  IN  IF /\ At(s, i) = "default" /\ At(s, i + 1) \in WhiteSpace
         /\ At(s, w) \in Words /\ At(s, p) = "("
        THEN [end |-> p, name |-> s[w]]
        ELSE [end |-> 0, name |-> ""]

\* route.ts:90 and 93   default\s+(\w+)\s*\(   ->   function $1(
DefaultMatch(s, i) ==
  LET m == AfterDefault(s, i)
  IN  IF m.end > 0
        THEN [end |-> m.end, out |-> << "function", SPACE, m.name, "(" >>]
        ELSE NoMatch

\* route.ts:91 and 92   export\s+default\s+(\w+)\s*\(
\*                      ->   export default function $1(
ExportDefaultMatch(s, i) ==
  LET m == IF At(s, i) = "export" /\ At(s, i + 1) \in WhiteSpace
             THEN AfterDefault(s, SkipWs(s, i + 1))
             ELSE [end |-> 0, name |-> ""]
  IN  IF m.end > 0
        THEN [end |-> m.end,
              out |-> << "export", SPACE, "default", SPACE, "function",
                         SPACE, m.name, "(" >>]
        ELSE NoMatch

\* a rule whose pattern starts with \n: the rule itself after a newline
AfterNewline(s, i, m) ==
  IF At(s, i) = NEWLINE /\ m.end > 0
    THEN [end |-> m.end, out |-> << NEWLINE >> \o m.out]
    ELSE NoMatch

\* route.ts:96-101   name=  open  ([^open]*?)  close \s* >
\*                   ->   name="$1">
\* the lazy group ends at the first closing quote that white space and
\* ">" follow; it holds no opening quote, and any number of closing ones
MismatchedQuotes(s, i, names, open, close) ==
  LET ends == { k \in (i + 2)..Len(s) :
                  /\ s[k] = close
                  /\ At(s, SkipWs(s, k + 1)) = ">"
                  /\ \A j \in (i + 2)..(k - 1) : s[j] # open }
  IN  IF At(s, i) \in names /\ At(s, i + 1) = open /\ ends # {}
        THEN [end |-> SkipWs(s, Min(ends) + 1),
              out |-> << s[i], QUOTE >> \o SubSeq(s, i + 2, Min(ends) - 1)
                        \o << QUOTE, ">" >>]
        ELSE NoMatch

\* route.ts:104   className='([^']*)'   ->   className="$1"
SingleQuotedClassName(s, i) ==
  LET ends == { k \in (i + 2)..Len(s) : s[k] = APOSTROPHE }
  IN  IF At(s, i) = "className=" /\ At(s, i + 1) = APOSTROPHE /\ ends # {}
        THEN [end |-> Min(ends),
              out |-> << s[i], QUOTE >> \o SubSeq(s, i + 2, Min(ends) - 1)
                        \o << QUOTE >>]
        ELSE NoMatch

\* route.ts:108-114   ^(\s*)(\w+)\s*\(\)\s*\{  : a capitalized name whose
\* match does not hold the word "function" gets the keyword, any other
\* match is put back as it is
MissingFunction(s, i) ==
  LET w == SkipWs(s, i)
      p == SkipWs(s, w + 1)
      b == SkipWs(s, p + 2)
  IN  IF /\ LineStart(s, i) /\ At(s, w) \in Words
         /\ At(s, p) = "(" /\ At(s, p + 1) = ")" /\ At(s, b) = "{"
        THEN [end |-> b,
              out |-> IF s[w] \in Capitalized /\ s[w] # "function"
                        THEN SubSeq(s, i, w - 1)
                               \o << "function", SPACE, s[w], "(", ")",
                                     SPACE, "{" >>
                        ELSE SubSeq(s, i, b)]
        ELSE NoMatch

\* route.ts:90-114  the ten rules, by their place in the function
MatchAt(rule, s, i) ==
  CASE rule = 1 -> IF LineStart(s, i) THEN DefaultMatch(s, i) ELSE NoMatch
    [] rule = 2 -> IF LineStart(s, i) THEN ExportDefaultMatch(s, i)
                                      ELSE NoMatch
    [] rule = 3 -> AfterNewline(s, i, ExportDefaultMatch(s, i + 1))
    [] rule = 4 -> AfterNewline(s, i, DefaultMatch(s, i + 1))
    [] rule = 5 ->
         MismatchedQuotes(s, i, { "className=" }, APOSTROPHE, QUOTE)
    [] rule = 6 ->
         MismatchedQuotes(s, i, { "className=" }, QUOTE, APOSTROPHE)
    [] rule = 7 -> MismatchedQuotes(s, i, AttributeNames, APOSTROPHE, QUOTE)
    [] rule = 8 -> MismatchedQuotes(s, i, AttributeNames, QUOTE, APOSTROPHE)
    [] rule = 9 -> SingleQuotedClassName(s, i)
    [] OTHER    -> MissingFunction(s, i)

LastRule == 10

\* String.prototype.replace with a pattern of flag g: the matches from left
\* to right, none overlapping another, the text between them kept
RECURSIVE ReplaceAll(_, _, _)
ReplaceAll(rule, s, i) ==
  IF i > Len(s) THEN << >>
  ELSE IF MatchAt(rule, s, i).end > 0
         THEN MatchAt(rule, s, i).out
                \o ReplaceAll(rule, s, MatchAt(rule, s, i).end + 1)
         ELSE << s[i] >> \o ReplaceAll(rule, s, i + 1)

\* fixed after the rules from the given one on
RECURSIVE FixedFrom(_, _)
FixedFrom(rule, fixed) ==
  IF rule > LastRule THEN fixed
  ELSE FixedFrom(rule + 1, ReplaceAll(rule, fixed, 1))

\* route.ts:83-117  sanitizeCode, on a text
sanitizeText(s) == FixedFrom(1, s)

\* ------------------------------------------------------------------------
\* Inputs of the sanitizer: declarations (export, default, function, a
\* name, parentheses, a brace, a space, a newline) and attributes
\* (attribute names, the two quotes, a value, ">")
\* ------------------------------------------------------------------------

DeclarationTokens ==
  { "export", "default", "function", "App", "(", ")", "{", SPACE, NEWLINE }
AttributeTokens ==
  { "id=", "className=", APOSTROPHE, QUOTE, "a", ">" }

MaxDeclarationLen == 5
MaxAttributeLen == 6
MaxRuns == 2

\* two words in a row would be one word
NoWordRun(s) ==
  \A i \in 1..(Len(s) - 1) : ~(s[i] \in Words /\ s[i + 1] \in Words)

SourceTexts ==
  { s \in UNION { [1..n -> DeclarationTokens] : n \in 0..MaxDeclarationLen }
      : NoWordRun(s) }
    \cup UNION { [1..n -> AttributeTokens] : n \in 0..MaxAttributeLen }

outsideSanitizer ==
  << routeVars, pageVars, previewVars, expanderVars, parserVars,
     generateVars, historyVars, editorVars >>

SanitizerInit == sourceCode \in SourceTexts /\ sanitized = << >>

\* sanitizeCode(code) on the source, then on what the last run returned
Sanitize ==
  /\ Len(sanitized) < MaxRuns
  /\ sanitized' =
       Append(sanitized,
              sanitizeText(IF sanitized = << >> THEN sourceCode
                           ELSE sanitized[Len(sanitized)]))
  /\ UNCHANGED << sourceCode, outsideSanitizer >>

SanitizerNext == Sanitize

\* The initial states: this component as constructed, the others unused.
InitSanitizer ==
  SanitizerInit /\ RouteOff /\ PageOff /\ PreviewOff /\ ExpanderOff
    /\ ParserOff /\ GenerateOff /\ HistoryOff /\ EditorOff

SanitizerSpec == InitSanitizer /\ [][SanitizerNext]_allVars

\* C24: sanitizeCode is idempotent: run on its own result it returns that
\* result unchanged.
C24_Idempotent ==
  Len(sanitized) = 2 => sanitized[2] = sanitized[1]

\* ------------------------------------------------------------------------
\* The editor: the file tree shows the expansion of the FileSet, the user
\* opens a file of it and changes its text (page.tsx:81, 278-307, 738-743;
\* IDELayout.tsx:265-283 maps the path the same way, without the branch
\* for /src/App.css).
\* ------------------------------------------------------------------------

CompAJsx == << "/", "components", "/", "A.jsx" >>

MaxEdits == 2

\* FileSets whose components are shown under different display paths
EditorFileSets ==
  { fs \in UNION { [K -> { CodeCss }] :
                     K \in SUBSET { AppJs, AppCss, CompAJs, CompAJsx, CompACss } } :
      ~({ CompAJs, CompAJsx } \subseteq DOMAIN fs) }

outsideEditor ==
  << routeVars, pageVars, previewVars, expanderVars, parserVars,
     generateVars, historyVars, sanitizerVars >>

EditorInit ==
  /\ shownFiles \in EditorFileSets
  /\ editorFile = SrcAppJsx
  /\ edits = << >>

\* page.tsx:741 (IDELayout.tsx:281)  readOnly={!activeFile.startsWith("/src/")}
readOnly(active) == ~startsWith(active, << "/", "src", "/" >>)

\* page.tsx:278-283  a file of the tree is opened
OpenFile ==
  \E filePath \in DOMAIN getExpandedProjectFiles(shownFiles) :
    /\ editorFile' = filePath
    /\ UNCHANGED << shownFiles, edits >>
    /\ UNCHANGED outsideEditor

\* page.tsx:295-307  the editor, not read-only, reports a change: the
\* FileSet gets the new text under the mapped path, or the handler returns
ChangeCode ==
  /\ ~readOnly(editorFile)
  /\ Len(edits) < MaxEdits
  /\ shownFiles' =
       IF SourceFilePath(editorFile) = Null THEN shownFiles
       ELSE Put(shownFiles, SourceFilePath(editorFile), CodeEdited)
  /\ edits' = Append(edits, [shown |-> editorFile, before |-> shownFiles,
                             after |-> shownFiles'])
  /\ UNCHANGED editorFile
  /\ UNCHANGED outsideEditor

EditorNext == OpenFile \/ ChangeCode

\* The initial states: this component as constructed, the others unused.
InitEditor ==
  EditorInit /\ RouteOff /\ PageOff /\ PreviewOff /\ ExpanderOff
    /\ ParserOff /\ GenerateOff /\ HistoryOff /\ SanitizerOff

EditorSpec == InitEditor /\ [][EditorNext]_allVars

\* the keys of a FileSet that the tree shows as source files
SourceKeys(fs) == { k \in DOMAIN fs : k = AppJs \/ k \in ComponentPaths(fs) }

\* C29: a change of the file shown for the key k (/App.js or a file under
\* /components/) updates the entry k and adds no key; and a change of any
\* file that the editor lets the user edit is written to the FileSet.
C29_PathsRoundTrip ==
  \A n \in 1..Len(edits) :
    /\ \A k \in SourceKeys(edits[n].before) :
         ExpandedLocation(k) = edits[n].shown =>
           edits[n].after = Put(edits[n].before, k, CodeEdited)
    /\ \E k \in DOMAIN edits[n].after :
         /\ edits[n].after[k] = CodeEdited
         /\ \A q \in DOMAIN edits[n].after \ { k } :
              q \in DOMAIN edits[n].before
                /\ edits[n].after[q] = edits[n].before[q]

\* ------------------------------------------------------------------------
\* The page that calls /api/generate and reads one JSON answer
\* (part_006:116-182; part_005:77-143 and page.tsx:1023-1088 are the same
\* text).  Its state is the state of Home: files, isLoading, messages;
\* handlers holds the one running handleGenerate, the answer it got and
\* the FileSet it found.
\* ------------------------------------------------------------------------

\* the value JavaScript's undefined
Undefined == [undefined |-> TRUE]

\* a message of the conversation
Message(role, text) == [role |-> role, content |-> text]

\* part_006:172  the message of the catch block
SorryMessage(reason) ==
  Message("assistant",
          << "Sorry, I encountered an error:" >> \o reason
            \o << "Please try again." >>)

\* part_006:163-167  the message after a code answer
DoneMessage(fs, description) ==
  Message("assistant",
          IF Cardinality(DOMAIN fs) > 1
            THEN << "Done! I've created", Cardinality(DOMAIN fs), "files" >>
                   \o description
            ELSE << "Done!" >> \o description)

\* what /api/generate may answer (generate/route.ts:211-252)
AnswerTexts == { << "Hello!" >>, << "Generated successfully" >> }
AnswerFileSets ==
  { [p \in { AppJs } |-> NoComponentApp],
    [p \in { AppJs, CompAJs } |-> NoComponentApp] }
JsonAnswers ==
  { ChatResponse(AString(t)) : t \in AnswerTexts }
    \cup { CodeResponse(fs, AString(t)) : fs \in AnswerFileSets, t \in AnswerTexts }
    \cup { ErrorResponse }

\* part_006:116-150  handleGenerate up to the await of fetch
SubmitPrompt ==
  /\ invocations < MaxInvocations
  /\ ~isLoading
  /\ \E currentPrompt \in Prompts \ { << >> } :
       /\ messages' = Append(messages, Message("user", currentPrompt))
       /\ sent' =
            Append(sent,
                   [prompt |-> currentPrompt,
                    currentFiles |-> IF Len(messages) > 0 THEN files
                                     ELSE Undefined,
                    conversationHistory |-> LastFour(messages)])
  /\ isLoading' = TRUE
  /\ handlers' = << [pc |-> "fetch", response |-> Undefined,
                     filesBefore |-> files] >>
  /\ invocations' = invocations + 1
  /\ UNCHANGED << files, activeFile, writers >>
  /\ UNCHANGED outsidePage

Awaiting == handlers # << >> /\ handlers[1].pc = "fetch"

Settled(response) ==
  << [pc |-> "done", response |-> response, filesBefore |-> files] >>

\* part_006:134, 170-179  fetch rejects
RequestFails ==
  /\ Awaiting
  /\ messages' = Append(messages, SorryMessage(<< "Failed to fetch" >>))
  /\ isLoading' = FALSE
  /\ handlers' = Settled(Undefined)
  /\ UNCHANGED << files, activeFile, sent, invocations, writers >>
  /\ UNCHANGED outsidePage

\* part_006:150-154, 170-179  the status is not 2xx
AnswerNotOk ==
  /\ Awaiting
  /\ \E data \in JsonAnswers :
       /\ data.status # 200
       /\ messages' = Append(messages, SorryMessage(<< data.error >>))
       /\ handlers' = Settled(data)
  /\ isLoading' = FALSE
  /\ UNCHANGED << files, activeFile, sent, invocations, writers >>
  /\ UNCHANGED outsidePage

\* part_006:150-169, 177-179  a 2xx answer with files
AnswerWithFiles ==
  /\ Awaiting
  /\ \E data \in JsonAnswers :
       /\ data.status = 200
       /\ "files" \in DOMAIN data
       /\ files' = data.files
       /\ messages' =
            Append(messages, DoneMessage(data.files, data.description.value))
       /\ handlers' = Settled(data)
  /\ isLoading' = FALSE
  /\ UNCHANGED << activeFile, sent, invocations, writers >>
  /\ UNCHANGED outsidePage

\* part_006:150-158, 170-179  a 2xx answer without files: setFiles gets
\* undefined, and Object.keys(undefined) throws into the catch block
AnswerWithoutFiles ==
  /\ Awaiting
  /\ \E data \in JsonAnswers :
       /\ data.status = 200
       /\ "files" \notin DOMAIN data
       /\ files' = Undefined
       /\ messages' =
            Append(messages,
                   SorryMessage(<< "Cannot convert undefined or null to object" >>))
       /\ handlers' = Settled(data)
  /\ isLoading' = FALSE
  /\ UNCHANGED << activeFile, sent, invocations, writers >>
  /\ UNCHANGED outsidePage

JsonClientNext ==
  \/ SubmitPrompt
  \/ RequestFails
  \/ AnswerNotOk
  \/ AnswerWithFiles
  \/ AnswerWithoutFiles

\* The initial states: the page as constructed, the others unused.
InitJsonClient ==
  PageInit /\ RouteOff /\ PreviewOff /\ ExpanderOff /\ ParserOff
    /\ GenerateOff /\ HistoryOff /\ SanitizerOff /\ EditorOff

JsonClientSpec == InitJsonClient /\ [][JsonClientNext]_allVars

\* the run of handleGenerate has finished
Finished == handlers # << >> /\ handlers[1].pc = "done"

\* C30: after a chat answer the FileSet is what it was and the last
\* message is the assistant's, with the chat text; after any answer the
\* FileSet is a map from paths to texts and isLoading is false.
C30_ChatLeavesFiles ==
  Finished =>
    /\ files # Undefined
    /\ ~isLoading
    /\ ( /\ handlers[1].response # Undefined
         /\ "type" \in DOMAIN handlers[1].response
         /\ handlers[1].response.type = "chat" ) =>
           /\ files = handlers[1].filesBefore
           /\ messages[Len(messages)] =
                Message("assistant", handlers[1].response.message.value)

====
